---------------------------- MODULE Spec2Model ----------------------------
(***************************************************************************)
(* A model of pathtracer-playground:                                       *)
(*   - the temporal accumulation of ReferencePathTracer                    *)
(*     (src/src/pt/reference_path_tracer.cpp),                             *)
(*   - the BVH traversal of the deferred lighting kernel                   *)
(*     (rayIntersectBvh, shadowRay, rayIntersectAabb, rayIntersectTriangle *)
(*     of src/unnamed/part_001),                                           *)
(*   - the sky state construction (skyStateNew of src/unnamed/part_004 and *)
(*     its caller SkyStateLayout).                                         *)
(* Each part has its own specification (SpecRenderer, SpecBvh, SpecSky,    *)
(* SpecAabb, SpecTriangle, SpecTexture, SpecAtlas, SpecKernel, SpecPath);  *)
(* the host side adds SpecRendererLive (accumulation under fair render     *)
(* calls), SpecFrame (the steps of one render call and the timestamp       *)
(* readback), SpecHandles (ownership of the raw GPU handles), SpecUi (the  *)
(* sky of the GUI), SpecFocus (the focus pick of onUpdate) and SpecLight   *)
(* (lightSample).  Variables of the parts a specification does not         *)
(* exercise keep their initial values.                                     *)
(***************************************************************************)
EXTENDS Integers, Sequences, FiniteSets, TLC

VARIABLES
    \* ---- ReferencePathTracer ----
    mCurrentRenderParams,     \* RenderParameters
    mAccumulatedSampleCount,  \* std::uint32_t
    mFrameCount,              \* std::uint32_t
    mRenderPassDurationsNs,   \* std::deque<std::uint64_t>
    timestampMapState,        \* map state of mTimestampBuffer
    hist,                     \* history of the last call, for stating the claims
    \* ---- sky state construction ----
    sky,                      \* the Sky the host configured (input)
    skyCall,                  \* the last call of skyStateNew: result and output struct
    skyStateLayout,           \* the SkyStateLayout constructed from sky
    \* ---- BVH traversal ----
    scene,                    \* index of the scene (bvhNodes, positionAttributes) bound
    ray,                      \* the Ray traced
    rayTMax,                  \* the rayTMax passed to both queries
    pc,                       \* "closest": in rayIntersectBvh, "shadow": in shadowRay, "done"
    closest,                  \* locals and outputs of rayIntersectBvh
    shadow,                   \* locals and result of shadowRay
    \* ---- rayIntersectAabb on its own ----
    aabbTest,                 \* arguments and result of one call
    \* ---- rayIntersectTriangle on its own ----
    triangleTest,             \* arguments and result of one call
    \* ---- textureLookup ----
    textureTest,              \* arguments and texel index of one call
    \* ---- texture atlas packing of the ReferencePathTracer constructor ----
    baseColorTextures,        \* scene.baseColorTextures
    textureDescriptors,       \* std::vector<TextureDescriptor>
    textureData,              \* std::vector<Texture::RgbaPixel>
    atlasPc,                  \* position in the constructor block
    \* ---- deferred lighting kernel main ----
    framebufferSize,          \* uniforms.framebufferSize
    sampleBuffer,             \* the writes <<slot, invocation>> of this frame
    invocations,              \* the invocations followed, and whether each has run
    \* ---- surfaceColor ----
    path,                     \* locals of surfaceColor and the log of what it did
    \* ---- one ReferencePathTracer::render call step by step ----
    frame,                    \* members, position in render, timestamp buffer, GPU log
    \* ---- ownership of the raw GPU handles ----
    handles,                  \* the ReferencePathTracer objects and the release log
    \* ---- the sky the GUI produces ----
    ui,                       \* UiState sky fields and the SkyStateLayout built
    \* ---- focus pick of onUpdate ----
    focus,                    \* focusPressed, focus distance and the log of picks
    \* ---- lightSample ----
    light                     \* arguments and result of one call

rendererVars ==
    <<mCurrentRenderParams, mAccumulatedSampleCount, mFrameCount,
      mRenderPassDurationsNs, timestampMapState, hist>>

skyVars ==
    <<sky, skyCall, skyStateLayout>>

bvhVars ==
    <<scene, ray, rayTMax, pc, closest, shadow>>

aabbVars ==
    <<aabbTest>>

triangleVars ==
    <<triangleTest>>

textureVars ==
    <<textureTest>>

atlasVars ==
    <<baseColorTextures, textureDescriptors, textureData, atlasPc>>

kernelVars ==
    <<framebufferSize, sampleBuffer, invocations>>

pathVars ==
    <<path>>

hostVars ==
    <<frame, handles, ui, focus, light>>

vars ==
    <<mCurrentRenderParams, mAccumulatedSampleCount, mFrameCount,
      mRenderPassDurationsNs, timestampMapState, hist,
      sky, skyCall, skyStateLayout,
      scene, ray, rayTMax, pc, closest, shadow,
      aabbTest, triangleTest, textureTest,
      baseColorTextures, textureDescriptors, textureData, atlasPc,
      framebufferSize, sampleBuffer, invocations,
      path,
      frame, handles, ui, focus, light>>

\* Per part, the variables of all other parts.
outsideRenderer ==
    <<skyVars, bvhVars, aabbVars, triangleVars,
      textureVars, atlasVars, kernelVars, pathVars,
      hostVars>>

outsideSky ==
    <<rendererVars, bvhVars, aabbVars, triangleVars,
      textureVars, atlasVars, kernelVars, pathVars,
      hostVars>>

outsideBvh ==
    <<rendererVars, skyVars, aabbVars, triangleVars,
      textureVars, atlasVars, kernelVars, pathVars,
      hostVars>>

outsideAabb ==
    <<rendererVars, skyVars, bvhVars, triangleVars,
      textureVars, atlasVars, kernelVars, pathVars,
      hostVars>>

outsideTriangle ==
    <<rendererVars, skyVars, bvhVars, aabbVars,
      textureVars, atlasVars, kernelVars, pathVars,
      hostVars>>

outsideTexture ==
    <<rendererVars, skyVars, bvhVars, aabbVars,
      triangleVars, atlasVars, kernelVars, pathVars,
      hostVars>>

outsideAtlas ==
    <<rendererVars, skyVars, bvhVars, aabbVars,
      triangleVars, textureVars, kernelVars, pathVars,
      hostVars>>

outsideKernel ==
    <<rendererVars, skyVars, bvhVars, aabbVars,
      triangleVars, textureVars, atlasVars, pathVars,
      hostVars>>

outsidePath ==
    <<rendererVars, skyVars, bvhVars, aabbVars,
      triangleVars, textureVars, atlasVars, kernelVars,
      hostVars>>

outsideFrame ==
    <<rendererVars, skyVars, bvhVars, aabbVars, triangleVars,
      textureVars, atlasVars, kernelVars, pathVars,
      handles, ui, focus, light>>

outsideHandles ==
    <<rendererVars, skyVars, bvhVars, aabbVars, triangleVars,
      textureVars, atlasVars, kernelVars, pathVars,
      frame, ui, focus, light>>

outsideUi ==
    <<rendererVars, skyVars, bvhVars, aabbVars, triangleVars,
      textureVars, atlasVars, kernelVars, pathVars,
      frame, handles, focus, light>>

outsideFocus ==
    <<rendererVars, skyVars, bvhVars, aabbVars, triangleVars,
      textureVars, atlasVars, kernelVars, pathVars,
      frame, handles, ui, light>>

outsideLight ==
    <<rendererVars, skyVars, bvhVars, aabbVars, triangleVars,
      textureVars, atlasVars, kernelVars, pathVars,
      frame, handles, ui, focus>>

\* std::uint32_t arithmetic and casts wrap modulo 2^32; the model scales the
\* width of std::uint32_t down so that the wrap is within reach.
U32Modulus == 8

Min(a, b) == IF a < b THEN a ELSE b

Max(a, b) == IF a < b THEN b ELSE a

\* The values the sky variables hold while no sky state is being constructed.
NoSkyCall == [called |-> FALSE]

NoSkyStateLayout == [constructed |-> FALSE]

IdleSkyVars ==
    /\ sky = [sunZenith |-> 0, turbidity |-> 0, albedo |-> [i \in 0..2 |-> 0]]
    /\ skyCall = NoSkyCall
    /\ skyStateLayout = NoSkyStateLayout

\* The values the traversal variables hold while no ray is traced.
IdleBvhVars ==
    /\ scene = 0
    /\ ray = <<>>
    /\ rayTMax = <<0, 1>>
    /\ pc = "idle"
    /\ closest = <<>>
    /\ shadow = <<>>

IdleRendererVars ==
    /\ mCurrentRenderParams =
           [framebufferSize |-> "window", camera |-> "camera A",
            samplingParams |-> [numSamplesPerPixel |-> 1, numBounces |-> 2], sky |-> "sky A"]
    /\ mAccumulatedSampleCount = 0
    /\ mFrameCount = 0
    /\ mRenderPassDurationsNs = <<>>
    /\ timestampMapState = "Unmapped"
    /\ hist = [op |-> "constructor", arg |-> mCurrentRenderParams, differed |-> FALSE,
               prevCount |-> 0, framesSinceReset |-> 0]

IdleAabbVars ==
    aabbTest = [called |-> FALSE]

IdleTriangleVars ==
    triangleTest = [called |-> FALSE]

IdleTextureVars ==
    textureTest = [called |-> FALSE]

IdleAtlasVars ==
    /\ baseColorTextures = <<>>
    /\ textureDescriptors = <<>>
    /\ textureData = <<>>
    /\ atlasPc = "idle"

IdleKernelVars ==
    /\ framebufferSize = <<0, 0>>
    /\ sampleBuffer = {}
    /\ invocations = <<>>

IdlePathVars ==
    path = <<>>

IdleFrame == frame = [pc |-> "none"]
IdleHandles == handles = [pc |-> "none"]
IdleUi == ui = [pc |-> "none"]
IdleFocus == focus = [pc |-> "none"]
IdleLight == light = [pc |-> "none"]

IdleHostVars ==
    /\ IdleFrame
    /\ IdleHandles
    /\ IdleUi
    /\ IdleFocus
    /\ IdleLight

\* Per part, all other parts at rest.
IdleOutsideRenderer ==
    /\ IdleSkyVars
    /\ IdleBvhVars
    /\ IdleAabbVars
    /\ IdleTriangleVars
    /\ IdleTextureVars
    /\ IdleAtlasVars
    /\ IdleKernelVars
    /\ IdlePathVars
    /\ IdleHostVars

IdleOutsideSky ==
    /\ IdleRendererVars
    /\ IdleBvhVars
    /\ IdleAabbVars
    /\ IdleTriangleVars
    /\ IdleTextureVars
    /\ IdleAtlasVars
    /\ IdleKernelVars
    /\ IdlePathVars
    /\ IdleHostVars

IdleOutsideBvh ==
    /\ IdleRendererVars
    /\ IdleSkyVars
    /\ IdleAabbVars
    /\ IdleTriangleVars
    /\ IdleTextureVars
    /\ IdleAtlasVars
    /\ IdleKernelVars
    /\ IdlePathVars
    /\ IdleHostVars

IdleOutsideAabb ==
    /\ IdleRendererVars
    /\ IdleSkyVars
    /\ IdleBvhVars
    /\ IdleTriangleVars
    /\ IdleTextureVars
    /\ IdleAtlasVars
    /\ IdleKernelVars
    /\ IdlePathVars
    /\ IdleHostVars

IdleOutsideTriangle ==
    /\ IdleRendererVars
    /\ IdleSkyVars
    /\ IdleBvhVars
    /\ IdleAabbVars
    /\ IdleTextureVars
    /\ IdleAtlasVars
    /\ IdleKernelVars
    /\ IdlePathVars
    /\ IdleHostVars

IdleOutsideTexture ==
    /\ IdleRendererVars
    /\ IdleSkyVars
    /\ IdleBvhVars
    /\ IdleAabbVars
    /\ IdleTriangleVars
    /\ IdleAtlasVars
    /\ IdleKernelVars
    /\ IdlePathVars
    /\ IdleHostVars

IdleOutsideAtlas ==
    /\ IdleRendererVars
    /\ IdleSkyVars
    /\ IdleBvhVars
    /\ IdleAabbVars
    /\ IdleTriangleVars
    /\ IdleTextureVars
    /\ IdleKernelVars
    /\ IdlePathVars
    /\ IdleHostVars

IdleOutsideKernel ==
    /\ IdleRendererVars
    /\ IdleSkyVars
    /\ IdleBvhVars
    /\ IdleAabbVars
    /\ IdleTriangleVars
    /\ IdleTextureVars
    /\ IdleAtlasVars
    /\ IdlePathVars
    /\ IdleHostVars

IdleOutsidePath ==
    /\ IdleRendererVars
    /\ IdleSkyVars
    /\ IdleBvhVars
    /\ IdleAabbVars
    /\ IdleTriangleVars
    /\ IdleTextureVars
    /\ IdleAtlasVars
    /\ IdleKernelVars
    /\ IdleHostVars

IdleOutsideFrame ==
    /\ IdleRendererVars
    /\ IdleSkyVars
    /\ IdleBvhVars
    /\ IdleAabbVars
    /\ IdleTriangleVars
    /\ IdleTextureVars
    /\ IdleAtlasVars
    /\ IdleKernelVars
    /\ IdlePathVars
    /\ IdleHandles
    /\ IdleUi
    /\ IdleFocus
    /\ IdleLight

IdleOutsideHandles ==
    /\ IdleRendererVars
    /\ IdleSkyVars
    /\ IdleBvhVars
    /\ IdleAabbVars
    /\ IdleTriangleVars
    /\ IdleTextureVars
    /\ IdleAtlasVars
    /\ IdleKernelVars
    /\ IdlePathVars
    /\ IdleFrame
    /\ IdleUi
    /\ IdleFocus
    /\ IdleLight

IdleOutsideUi ==
    /\ IdleRendererVars
    /\ IdleSkyVars
    /\ IdleBvhVars
    /\ IdleAabbVars
    /\ IdleTriangleVars
    /\ IdleTextureVars
    /\ IdleAtlasVars
    /\ IdleKernelVars
    /\ IdlePathVars
    /\ IdleFrame
    /\ IdleHandles
    /\ IdleFocus
    /\ IdleLight

IdleOutsideFocus ==
    /\ IdleRendererVars
    /\ IdleSkyVars
    /\ IdleBvhVars
    /\ IdleAabbVars
    /\ IdleTriangleVars
    /\ IdleTextureVars
    /\ IdleAtlasVars
    /\ IdleKernelVars
    /\ IdlePathVars
    /\ IdleFrame
    /\ IdleHandles
    /\ IdleUi
    /\ IdleLight

IdleOutsideLight ==
    /\ IdleRendererVars
    /\ IdleSkyVars
    /\ IdleBvhVars
    /\ IdleAabbVars
    /\ IdleTriangleVars
    /\ IdleTextureVars
    /\ IdleAtlasVars
    /\ IdleKernelVars
    /\ IdlePathVars
    /\ IdleFrame
    /\ IdleHandles
    /\ IdleUi
    /\ IdleFocus

(***************************************************************************)
(* ReferencePathTracer: render parameters and temporal accumulation        *)
(***************************************************************************)

\* Bounds of the renderer model.
MaxSamples == 3

MaxFrames == 5

\* The capacity of the render pass duration history.
DURATION_HISTORY == 30

\* RenderParameters values the host can pass.  Of a camera, a sky and a
\* framebuffer size only the equality with the stored one matters here, so two
\* cameras and two skies are told apart; the bounce counts are two of the GUI's
\* choices; the sample target ranges over 1..MaxSamples.
RenderParametersSet ==
    [framebufferSize : {"window"},
     camera : {"camera A", "camera B"},
     samplingParams : [numSamplesPerPixel : 1..MaxSamples, numBounces : {2, 4}],
     sky : {"sky A", "sky B"}]

\* operator!= of RenderParameters: the defaulted member-wise comparison.
RenderParametersNe(a, b) ==
    \/ a.framebufferSize # b.framebufferSize
    \/ a.camera # b.camera
    \/ a.samplingParams.numSamplesPerPixel # b.samplingParams.numSamplesPerPixel
    \/ a.samplingParams.numBounces # b.samplingParams.numBounces
    \/ a.sky # b.sky

\* A setRenderParameters that stores the parameters and forgets the reset.
SetRenderParametersNoReset(cur, count, renderParams) ==
    IF RenderParametersNe(cur, renderParams)
    THEN [params |-> renderParams, count |-> count]
    ELSE [params |-> cur, count |-> count]

\* A setRenderParameters that resets but keeps the stale sampling parameters.
SetRenderParametersStaleSampling(cur, count, renderParams) ==
    IF RenderParametersNe(cur, renderParams)
    THEN [params |-> [renderParams EXCEPT !.samplingParams = cur.samplingParams],
          count |-> 0]
    ELSE [params |-> cur, count |-> count]

\* A setRenderParameters without the comparison: it stores and resets always.
SetRenderParametersAlwaysReset(cur, count, renderParams) ==
    [params |-> renderParams, count |-> 0]

\* ReferencePathTracer::setRenderParameters: the fields it leaves.
SetRenderParametersImpl(cur, count, renderParams) ==
    IF RenderParametersNe(cur, renderParams)
    THEN [params |-> renderParams, count |-> 0]
    ELSE [params |-> cur, count |-> count]

\* A render that increments the count without the clamp.
NextSampleCountUnclamped(count, numSamplesPerPixel) ==
    count + 1

\* A render that leaves the count as it is.
NextSampleCountStuck(count, numSamplesPerPixel) ==
    count

\* render: mAccumulatedSampleCount = std::min(mAccumulatedSampleCount + 1, numSamplesPerPixel).
\* The operands stay far below 2^32 within the bounds, so the uint32 sum does not wrap.
NextSampleCount(count, numSamplesPerPixel) ==
    Min(count + 1, numSamplesPerPixel)

\* A callback that appends and never drops the oldest entry.
TimestampCallbackNoDrop(durations, success, delta) ==
    IF success THEN Append(durations, delta) ELSE durations

\* The timestamp map callback of render: on success it appends the duration,
\* drops the oldest entry beyond DURATION_HISTORY and unmaps the buffer.
TimestampCallback(durations, success, delta) ==
    IF success
    THEN LET pushed == Append(durations, delta)
         IN  IF Len(pushed) > DURATION_HISTORY THEN Tail(pushed) ELSE pushed
    ELSE durations

\* timestamps->renderPassEnd - timestamps->renderPassBegin of the frame whose
\* map request is pending.  The GPU's clock is outside the model: the duration
\* of a frame is identified by the number of the frame, so that every frame's
\* duration is distinct.
RenderPassDelta ==
    mFrameCount

InitRendererVars ==
    /\ mCurrentRenderParams \in RenderParametersSet
    /\ mAccumulatedSampleCount = 0
    /\ mFrameCount = 0
    /\ mRenderPassDurationsNs = <<>>
    /\ timestampMapState = "Unmapped"
    /\ hist = [op |-> "constructor", arg |-> mCurrentRenderParams, differed |-> FALSE,
               prevCount |-> 0, framesSinceReset |-> 0]

\* void ReferencePathTracer::setRenderParameters(const RenderParameters&)
SetRenderParameters(renderParams) ==
    LET r == SetRenderParametersImpl(mCurrentRenderParams, mAccumulatedSampleCount, renderParams)
        differed == renderParams # mCurrentRenderParams
    IN  /\ mCurrentRenderParams' = r.params
        /\ mAccumulatedSampleCount' = r.count
        /\ hist' = [op |-> "setRenderParameters", arg |-> renderParams,
                    differed |-> differed, prevCount |-> mAccumulatedSampleCount,
                    framesSinceReset |-> IF differed THEN 0 ELSE hist.framesSinceReset]
        /\ UNCHANGED <<mFrameCount, mRenderPassDurationsNs, timestampMapState>>
        /\ UNCHANGED outsideRenderer

\* void ReferencePathTracer::render(gpuContext, gui, swapChain).
\* The do/while at its top ticks the device until the timestamp buffer is
\* unmapped, so a pending map request is answered (status success or not) first.
Render(haveTexture, status) ==
    LET drained == IF timestampMapState = "Pending"
                   THEN TimestampCallback(mRenderPassDurationsNs, status, RenderPassDelta)
                   ELSE mRenderPassDurationsNs
    IN  /\ mFrameCount < MaxFrames
        /\ timestampMapState = "Unmapped" => status
        /\ mRenderPassDurationsNs' = drained
        /\ IF haveTexture
           THEN /\ mFrameCount' = mFrameCount + 1
                /\ mAccumulatedSampleCount' =
                       NextSampleCount(mAccumulatedSampleCount,
                                       mCurrentRenderParams.samplingParams.numSamplesPerPixel)
                /\ timestampMapState' = "Pending"
                /\ hist' = [hist EXCEPT !.op = "render",
                                        !.prevCount = mAccumulatedSampleCount,
                                        !.framesSinceReset = @ + 1]
           ELSE /\ timestampMapState' = "Unmapped"
                /\ hist' = [hist EXCEPT !.op = "renderNoTexture",
                                        !.prevCount = mAccumulatedSampleCount]
                /\ UNCHANGED <<mFrameCount, mAccumulatedSampleCount>>
        /\ UNCHANGED mCurrentRenderParams
        /\ UNCHANGED outsideRenderer

\* A device tick issued outside render (another renderer ticks the same device):
\* the pending map request is answered.
DeviceTick(status) ==
    /\ timestampMapState = "Pending"
    /\ mRenderPassDurationsNs' = TimestampCallback(mRenderPassDurationsNs, status, RenderPassDelta)
    /\ timestampMapState' = "Unmapped"
    /\ hist' = [hist EXCEPT !.op = "callback", !.prevCount = mAccumulatedSampleCount]
    /\ UNCHANGED <<mCurrentRenderParams, mAccumulatedSampleCount, mFrameCount>>
    /\ UNCHANGED outsideRenderer

InitRenderer ==
    /\ InitRendererVars
    /\ IdleOutsideRenderer

NextRenderer ==
    \/ \E p \in RenderParametersSet : SetRenderParameters(p)
    \/ \E haveTexture \in BOOLEAN, status \in BOOLEAN : Render(haveTexture, status)
    \/ \E status \in BOOLEAN : DeviceTick(status)

SpecRenderer ==
    InitRenderer /\ [][NextRenderer]_vars

(***************************************************************************)
(* Claims about the accumulated sample count                               *)
(***************************************************************************)

\* C1: in every reachable state of the renderer the accumulated sample count
\* is at most the configured numSamplesPerPixel, so the assert of render holds,
\* also after calls that lower numSamplesPerPixel.
C1_CountNeverExceedsTarget ==
    mAccumulatedSampleCount <= mCurrentRenderParams.samplingParams.numSamplesPerPixel

\* A call of setRenderParameters lowered the target below the count held before it.
C1_Witness ==
    /\ hist.op = "setRenderParameters"
    /\ hist.prevCount > mCurrentRenderParams.samplingParams.numSamplesPerPixel

\* C2: after setRenderParameters with parameters that differ from the stored
\* ones in any field, the count is 0 and the stored parameters are the new ones.
C2_ChangeResetsAndStores ==
    (hist.op = "setRenderParameters" /\ hist.differed)
        => /\ mAccumulatedSampleCount = 0
           /\ mCurrentRenderParams = hist.arg

\* A differing call arrived while samples had been accumulated.
C2_Witness ==
    /\ hist.op = "setRenderParameters"
    /\ hist.differed
    /\ hist.prevCount > 0

\* C3: after n successful render calls since the last reset (construction or a
\* parameter change), the count is min(n, numSamplesPerPixel).
C3_CountIsClampedFrameCount ==
    mAccumulatedSampleCount =
        Min(hist.framesSinceReset, mCurrentRenderParams.samplingParams.numSamplesPerPixel)

\* More frames were rendered since the reset than the target: the clamp acted.
C3_Witness ==
    /\ hist.op = "render"
    /\ hist.framesSinceReset > mCurrentRenderParams.samplingParams.numSamplesPerPixel
    /\ mAccumulatedSampleCount = mCurrentRenderParams.samplingParams.numSamplesPerPixel

\* C22: a call of setRenderParameters with parameters equal to the stored
\* ones leaves the accumulated sample count and the stored parameters as they
\* were, so calling it before every frame does not restart the accumulation.
C22_EqualParametersChangeNothing ==
    (hist.op = "setRenderParameters" /\ ~hist.differed)
        => /\ mAccumulatedSampleCount = hist.prevCount
           /\ mCurrentRenderParams = hist.arg

\* C22 witness: a call with the stored parameters arrived while the
\* accumulation had reached its target after more than one frame.
C22_Witness ==
    /\ hist.op = "setRenderParameters"
    /\ ~hist.differed
    /\ hist.prevCount > 1
    /\ mAccumulatedSampleCount = mCurrentRenderParams.samplingParams.numSamplesPerPixel

(***************************************************************************)
(* The renderer without a bound on the number of frames, for progress.     *)
(* mFrameCount is a std::uint32_t and wraps (the width is scaled down to   *)
(* U32Modulus); every render pass duration is taken to be the same, 0; of  *)
(* a call only its kind is remembered in hist.                             *)
(***************************************************************************)

\* the parameters the host passes while the sky and the bounce count are
\* left alone: the camera moves and the sample target is edited
LiveRenderParametersSet ==
    {p \in RenderParametersSet :
        p.sky = "sky A" /\ p.samplingParams.numBounces = 2}

InitRendererLive ==
    /\ IdleOutsideRenderer
    /\ mCurrentRenderParams \in LiveRenderParametersSet
    /\ mAccumulatedSampleCount = 0
    /\ mFrameCount = 0
    /\ mRenderPassDurationsNs = <<>>
    /\ timestampMapState = "Unmapped"
    /\ hist = [op |-> "constructor"]

SetRenderParametersLive(renderParams) ==
    LET r == SetRenderParametersImpl(mCurrentRenderParams, mAccumulatedSampleCount, renderParams)
    IN  /\ mCurrentRenderParams' = r.params
        /\ mAccumulatedSampleCount' = r.count
        /\ hist' = [op |-> IF RenderParametersNe(mCurrentRenderParams, renderParams)
                           THEN "change" ELSE "same"]
        /\ UNCHANGED <<mFrameCount, mRenderPassDurationsNs, timestampMapState>>
        /\ UNCHANGED outsideRenderer

RenderLive(haveTexture, status) ==
    /\ timestampMapState = "Unmapped" => status
    /\ mRenderPassDurationsNs' =
           IF timestampMapState = "Pending"
           THEN TimestampCallback(mRenderPassDurationsNs, status, 0)
           ELSE mRenderPassDurationsNs
    /\ IF haveTexture
       THEN /\ mFrameCount' = (mFrameCount + 1) % U32Modulus
            /\ mAccumulatedSampleCount' =
                   NextSampleCount(mAccumulatedSampleCount,
                                   mCurrentRenderParams.samplingParams.numSamplesPerPixel)
            /\ timestampMapState' = "Pending"
            /\ hist' = [op |-> "render"]
       ELSE /\ timestampMapState' = "Unmapped"
            /\ hist' = [op |-> "renderNoTexture"]
            /\ UNCHANGED <<mFrameCount, mAccumulatedSampleCount>>
    /\ UNCHANGED mCurrentRenderParams
    /\ UNCHANGED outsideRenderer

DeviceTickLive(status) ==
    /\ timestampMapState = "Pending"
    /\ mRenderPassDurationsNs' = TimestampCallback(mRenderPassDurationsNs, status, 0)
    /\ timestampMapState' = "Unmapped"
    /\ hist' = [op |-> "callback"]
    /\ UNCHANGED <<mCurrentRenderParams, mAccumulatedSampleCount, mFrameCount>>
    /\ UNCHANGED outsideRenderer

NextRendererLive ==
    \/ \E p \in LiveRenderParametersSet : SetRenderParametersLive(p)
    \/ \E haveTexture \in BOOLEAN, status \in BOOLEAN : RenderLive(haveTexture, status)
    \/ \E status \in BOOLEAN : DeviceTickLive(status)

\* render calls keep succeeding: the host's frame loop calls render, and a
\* call that obtains a texture view is always possible
RenderKeepsSucceeding ==
    WF_vars(\E status \in BOOLEAN : RenderLive(TRUE, status))

SpecRendererLive ==
    InitRendererLive /\ [][NextRendererLive]_vars /\ RenderKeepsSucceeding

AtTarget ==
    mAccumulatedSampleCount = mCurrentRenderParams.samplingParams.numSamplesPerPixel

\* C23: if from some point on no call changes the render parameters, while
\* render calls keep succeeding, then from some point on the accumulated
\* sample count equals numSamplesPerPixel (the progress is 100 percent); and
\* a count at the target stays there across every step that is not a
\* parameter change.
C23_ProgressReachesTargetAndStays ==
    /\ (<>[](hist.op # "change")) => <>[]AtTarget
    /\ [][(AtTarget /\ hist'.op # "change") => AtTarget']_vars

\* C23 witness: after a parameter change reset the count, renders brought it
\* back to a target above 1.
C23_Witness ==
    /\ hist.op = "render"
    /\ AtTarget
    /\ mAccumulatedSampleCount > 1
    /\ mFrameCount > mAccumulatedSampleCount

(***************************************************************************)
(* Sky state construction: skyStateNew and SkyStateLayout                  *)
(***************************************************************************)

\* Angles are counted in steps of (pi/2)/AngleSteps, turbidity and albedo in
\* steps of 1/UnitSteps, so the domain limits 0, pi, 1 and 10 are exact.
AngleSteps == 2

UnitSteps == 2

HALF_PI == AngleSteps

PI == 2 * AngleSteps

TURBIDITY_MIN == 1

TURBIDITY_MAX == 10

\* The Sky values the inputs are drawn from: each parameter ranges over its
\* domain and one step beyond it on both sides.
SkySet ==
    [sunZenith : (-AngleSteps - 1)..(AngleSteps + 1),
     turbidity : (TURBIDITY_MIN * UnitSteps - 1)..(TURBIDITY_MAX * UnitSteps + 1),
     albedo : [0..2 -> -1..(UnitSteps + 1)]]

\* The contents of a SkyState no call has written.
\* A channel no call has written holds <<>>; a written one holds what
\* InitParams computed for it.
NotWritten == <<>>

Uninitialized == [params |-> [i \in 0..2 |-> NotWritten], radiances |-> [i \in 0..2 |-> NotWritten]]

\* initParams without the clamp of turbidityMax to the last table
InitParamsNoClamp(turbidity, albedo, t) ==
    LET turbidityInt == turbidity \div UnitSteps
        turbidityRem == turbidity % UnitSteps
        turbidityMin == turbidityInt - 1
        turbidityMax == turbidityInt
    IN  <<turbidityMin, turbidityMax, turbidityRem, albedo, t>>

\* initParams / initRadiances for one channel.  The tabulated data is outside
\* the model, so the value written is identified by what it is computed from:
\* <<turbidityMin, turbidityMax, turbidityRem, albedo, t>>, the two table rows
\* blended, the inputs of the blend weights and the Bezier parameter (t stands
\* for the cube root of elevation / (pi/2) and is identified by the elevation).
InitParams(turbidity, albedo, t) ==
    LET turbidityInt == turbidity \div UnitSteps
        turbidityRem == turbidity % UnitSteps
        turbidityMin == turbidityInt - 1
        turbidityMax == IF turbidityInt < 9 THEN turbidityInt ELSE 9
    IN  <<turbidityMin, turbidityMax, turbidityRem, albedo, t>>

\* A skyStateNew that validates the turbidity before the elevation.
SkyStateNewTurbidityFirst(skyParams, skyState) ==
    LET elevation == skyParams.elevation
        turbidity == skyParams.turbidity
        albedo == skyParams.albedo
    IN  IF turbidity < TURBIDITY_MIN * UnitSteps \/ turbidity > TURBIDITY_MAX * UnitSteps
        THEN [result |-> "TurbidityOutOfRange", skyState |-> skyState]
        ELSE IF elevation < 0 \/ elevation > PI
        THEN [result |-> "ElevationOutOfRange", skyState |-> skyState]
        ELSE IF \E i \in 0..2 : albedo[i] < 0 \/ albedo[i] > UnitSteps
        THEN [result |-> "AlbedoOutOfRange", skyState |-> skyState]
        ELSE [result |-> "Success",
              skyState |->
                  [params |-> [i \in 0..2 |-> InitParams(turbidity, albedo[i], elevation)],
                   radiances |-> [i \in 0..2 |-> InitParams(turbidity, albedo[i], elevation)]]]

\* SkyStateResult skyStateNew(const SkyParams*, SkyState*): the result and the
\* contents of *skyState after the call, given its contents before.
SkyStateNew(skyParams, skyState) ==
    LET elevation == skyParams.elevation
        turbidity == skyParams.turbidity
        albedo == skyParams.albedo
    IN  IF elevation < 0 \/ elevation > PI
        THEN [result |-> "ElevationOutOfRange", skyState |-> skyState]
        ELSE IF turbidity < TURBIDITY_MIN * UnitSteps \/ turbidity > TURBIDITY_MAX * UnitSteps
        THEN [result |-> "TurbidityOutOfRange", skyState |-> skyState]
        ELSE IF \E i \in 0..2 : albedo[i] < 0 \/ albedo[i] > UnitSteps
        THEN [result |-> "AlbedoOutOfRange", skyState |-> skyState]
        ELSE [result |-> "Success",
              skyState |->
                  [params |-> [i \in 0..2 |-> InitParams(turbidity, albedo[i], elevation)],
                   radiances |-> [i \in 0..2 |-> InitParams(turbidity, albedo[i], elevation)]]]

\* The sky_params SkyStateLayout builds from a Sky: elevation = 0.5 * PI - sunZenith.
SkyParamsOf(s) ==
    [elevation |-> HALF_PI - s.sunZenith, turbidity |-> s.turbidity, albedo |-> s.albedo]

InitSky ==
    /\ IdleOutsideSky
    /\ sky \in SkySet
    /\ skyCall = NoSkyCall
    /\ skyStateLayout = NoSkyStateLayout

\* A call of skyStateNew on an output struct with the contents `before`.
CallSkyStateNew(before) ==
    /\ ~skyCall.called
    /\ ~skyStateLayout.constructed
    /\ LET r == SkyStateNew(SkyParamsOf(sky), before)
       IN  skyCall' = [called |-> TRUE, before |-> before,
                       result |-> r.result, skyState |-> r.skyState]
    /\ UNCHANGED <<sky, skyStateLayout>>
    /\ UNCHANGED outsideSky

\* SkyStateLayout::SkyStateLayout(const Sky&): skyStateNew on an uninitialized
\* local, assert(r == success), then the memcpy of params and radiances.  With
\* NDEBUG the assert is no statement and the copy follows whatever r is.
ConstructSkyStateLayout(ndebug) ==
    /\ ~skyCall.called
    /\ ~skyStateLayout.constructed
    /\ LET r == SkyStateNew(SkyParamsOf(sky), Uninitialized)
       IN  IF ~ndebug /\ r.result # "Success"
           THEN skyStateLayout' = [constructed |-> TRUE, ndebug |-> ndebug, aborted |-> TRUE,
                                   copied |-> FALSE, result |-> r.result,
                                   params |-> Uninitialized.params,
                                   skyRadiances |-> Uninitialized.radiances]
           ELSE skyStateLayout' = [constructed |-> TRUE, ndebug |-> ndebug, aborted |-> FALSE,
                                   copied |-> TRUE, result |-> r.result,
                                   params |-> r.skyState.params,
                                   skyRadiances |-> r.skyState.radiances]
    /\ UNCHANGED <<sky, skyCall>>
    /\ UNCHANGED outsideSky

NextSky ==
    \/ \E before \in {Uninitialized,
                      SkyStateNew([elevation |-> 0, turbidity |-> TURBIDITY_MIN * UnitSteps,
                                   albedo |-> [i \in 0..2 |-> 0]], Uninitialized).skyState} :
           CallSkyStateNew(before)
    \/ \E ndebug \in BOOLEAN : ConstructSkyStateLayout(ndebug)

SpecSky ==
    InitSky /\ [][NextSky]_vars

(***************************************************************************)
(* Claims about the sky state construction                                 *)
(***************************************************************************)

ElevationOut(p) == p.elevation < 0 \/ p.elevation > PI

TurbidityOut(p) == p.turbidity < TURBIDITY_MIN * UnitSteps \/ p.turbidity > TURBIDITY_MAX * UnitSteps

AlbedoOut(p) == \E i \in 0..2 : p.albedo[i] < 0 \/ p.albedo[i] > UnitSteps

\* C9 as stated: each out-of-domain parameter yields its own error, whatever the
\* other parameters are, and an input inside all three domains yields Success.
C9_EachDomainItsError ==
    skyCall.called =>
        LET p == SkyParamsOf(sky)
        IN  /\ ElevationOut(p) => skyCall.result = "ElevationOutOfRange"
            /\ TurbidityOut(p) => skyCall.result = "TurbidityOutOfRange"
            /\ AlbedoOut(p) => skyCall.result = "AlbedoOutOfRange"
            /\ (~ElevationOut(p) /\ ~TurbidityOut(p) /\ ~AlbedoOut(p))
                   => skyCall.result = "Success"

\* C9 amended: the domains are validated in the order elevation, turbidity,
\* albedo and the first violated one names the error; nothing is clamped, and an
\* input inside all three domains yields Success.
C9_FirstViolatedDomainIsError ==
    skyCall.called =>
        LET p == SkyParamsOf(sky)
        IN  /\ ElevationOut(p) => skyCall.result = "ElevationOutOfRange"
            /\ (~ElevationOut(p) /\ TurbidityOut(p)) => skyCall.result = "TurbidityOutOfRange"
            /\ (~ElevationOut(p) /\ ~TurbidityOut(p) /\ AlbedoOut(p))
                   => skyCall.result = "AlbedoOutOfRange"
            /\ (~ElevationOut(p) /\ ~TurbidityOut(p) /\ ~AlbedoOut(p))
                   => skyCall.result = "Success"

\* A call with the elevation inside its domain and both the turbidity and an
\* albedo component outside theirs was answered.
C9_Witness ==
    /\ skyCall.called
    /\ ~ElevationOut(SkyParamsOf(sky))
    /\ TurbidityOut(SkyParamsOf(sky))
    /\ AlbedoOut(SkyParamsOf(sky))
    /\ skyCall.result = "TurbidityOutOfRange"

\* C10: an error result leaves the output SkyState as it was, and
\* SkyStateLayout copies params and radiances only when the result is success.
C10_NoStateOnError ==
    /\ (skyCall.called /\ skyCall.result # "Success") => skyCall.skyState = skyCall.before
    /\ (skyStateLayout.constructed /\ skyStateLayout.copied)
           => skyStateLayout.result = "Success"

\* The blend weights <<s0, s1, s2, s3>> of initParams and initRadiances, in
\* units of 1 / UnitSteps^2 (albedo and turbidityRem are in units of
\* 1 / UnitSteps): (1 - albedo)(1 - rem), (1 - albedo) rem, albedo (1 - rem),
\* albedo rem.
BlendWeights(turbidityRem, albedo) ==
    << (UnitSteps - albedo) * (UnitSteps - turbidityRem),
       (UnitSteps - albedo) * turbidityRem,
       albedo * (UnitSteps - turbidityRem),
       albedo * turbidityRem >>

\* what was written for one channel blends the tables of floor(turbidity)
\* and ceil(turbidity), both among the ten tables, with weights that are
\* non-negative and sum to 1
BlendsBracketingTables(written, turbidity) ==
    LET turbidityMin == written[1]
        turbidityMax == written[2]
        turbidityRem == written[3]
        weights == BlendWeights(turbidityRem, written[4])
        floorT == turbidity \div UnitSteps
        ceilT == (turbidity + UnitSteps - 1) \div UnitSteps
    IN  /\ turbidityMin + 1 > 0
        /\ turbidityMin \in 0..9
        /\ turbidityMax \in 0..9
        /\ turbidityMin = floorT - 1
        /\ turbidityRem = turbidity - floorT * UnitSteps
        /\ turbidityRem # 0 => turbidityMax = ceilT - 1
        /\ turbidityRem = 0 => weights[2] = 0 /\ weights[4] = 0
        /\ \A k \in 1..4 : weights[k] >= 0
        /\ weights[1] + weights[2] + weights[3] + weights[4]
             = UnitSteps * UnitSteps

\* C21: for every turbidity in [1, 10] (and albedo in [0, 1]) initParams and
\* initRadiances blend the tables of floor(turbidity) and ceil(turbidity) by
\* the fractional remainder: both table indices lie in 0..9, turbidityInt is
\* positive, and the weights s0..s3 are non-negative and sum to 1.
C21_BlendOfBracketingTables ==
    (skyCall.called /\ skyCall.result = "Success") =>
        \A i \in 0..2 :
            /\ BlendsBracketingTables(skyCall.skyState.params[i], sky.turbidity)
            /\ BlendsBracketingTables(skyCall.skyState.radiances[i], sky.turbidity)

\* C21 witness: a sky state was built for a fractional turbidity between 9
\* and 10 and an albedo strictly between 0 and 1, so that the last table is
\* the upper one and all four weights are positive.
C21_Witness ==
    /\ skyCall.called
    /\ skyCall.result = "Success"
    /\ sky.turbidity > 9 * UnitSteps
    /\ sky.turbidity < TURBIDITY_MAX * UnitSteps
    /\ skyCall.skyState.params[0][2] = 9
    /\ \A k \in 1..4 :
           BlendWeights(skyCall.skyState.params[0][3], sky.albedo[0])[k] > 0

(***************************************************************************)
(* BVH traversal: rayIntersectBvh (closest hit) and shadowRay (any hit).   *)
(*                                                                         *)
(* f32 values are modelled exactly.  A value is a pair <<n, d>> with       *)
(* d >= 0: the rational n/d when d > 0, +infinity <<1, 0>>, -infinity      *)
(* <<-1, 0>> and NaN <<0, 0>>.  Scene coordinates are small even integers  *)
(* on axis-aligned planes and ray directions have components in -1..1, so  *)
(* every determinant is a power of two and every f32 operation of the      *)
(* shader is exact on these inputs.  Comparisons with NaN are false; max   *)
(* and min return the other operand when one operand is NaN.               *)
(***************************************************************************)
GridMax == 1
ShortTMax == 2
T_MAX == 10000
STACK_CAPACITY == 32
EPSILON == <<1, 100000>>

Abs(x) == IF x < 0 THEN -x ELSE x
Sgn(x) == IF x < 0 THEN -1 ELSE IF x > 0 THEN 1 ELSE 0

RECURSIVE Gcd(_, _)
Gcd(a, b) == IF b = 0 THEN a ELSE Gcd(b, a % b)

F(n, d) ==
    IF d = 0 THEN <<Sgn(n), 0>>
    ELSE LET g == Gcd(Abs(n), Abs(d))
         IN  <<(Sgn(d) * n) \div g, Abs(d) \div g>>

FInt(k) == <<k, 1>>
FZero == <<0, 1>>
FOne == <<1, 1>>
FInfinity == <<1, 0>>
FIsNaN(a) == a[1] = 0 /\ a[2] = 0
FNeg(a) == <<-a[1], a[2]>>
FMul(a, b) == F(a[1] * b[1], a[2] * b[2])
FAdd(a, b) ==
    IF a[2] = 0 /\ b[2] = 0
    THEN (IF a[1] = b[1] THEN a ELSE <<0, 0>>)
    ELSE IF a[2] = 0 THEN a
    ELSE IF b[2] = 0 THEN b
    ELSE F(a[1] * b[2] + b[1] * a[2], a[2] * b[2])
FSub(a, b) == FAdd(a, FNeg(b))
FLt(a, b) ==
    IF FIsNaN(a) \/ FIsNaN(b) THEN FALSE
    ELSE IF a[2] = 0 /\ b[2] = 0 THEN a[1] < b[1]
    ELSE a[1] * b[2] < b[1] * a[2]
FGt(a, b) == FLt(b, a)
FLe(a, b) == ~FIsNaN(a) /\ ~FIsNaN(b) /\ ~FLt(b, a)
FMax(e1, e2) ==
    IF FIsNaN(e1) THEN e2
    ELSE IF FIsNaN(e2) THEN e1
    ELSE IF FLt(e1, e2) THEN e2 ELSE e1
FMin(e1, e2) ==
    IF FIsNaN(e1) THEN e2
    ELSE IF FIsNaN(e2) THEN e1
    ELSE IF FLt(e2, e1) THEN e2 ELSE e1

\* vec3 with integer components
VSub(a, b) == <<a[1] - b[1], a[2] - b[2], a[3] - b[3]>>
VDot(a, b) == a[1] * b[1] + a[2] * b[2] + a[3] * b[3]
VCross(a, b) ==
    <<a[2] * b[3] - a[3] * b[2],
      a[3] * b[1] - a[1] * b[3],
      a[1] * b[2] - a[2] * b[1]>>

\* struct Positions
Positions(p0, p1, p2) == [p0 |-> p0, p1 |-> p1, p2 |-> p2]

\* ---- scene data bound to the shader: positionAttributes and bvhNodes ----
PlaneZ1 == Positions(<<0, 0, 1>>, <<2, 0, 1>>, <<0, 2, 1>>)
PlaneZ2 == Positions(<<0, 0, 2>>, <<2, 0, 2>>, <<0, 2, 2>>)
PlaneX2 == Positions(<<2, 0, 0>>, <<2, 2, 0>>, <<2, 0, 2>>)
PlaneY2 == Positions(<<0, 2, 0>>, <<2, 2, 0>>, <<0, 2, 2>>)

MinOf(S) == CHOOSE x \in S : \A y \in S : x <= y
MaxOf(S) == CHOOSE x \in S : \A y \in S : x >= y

\* struct Aabb <<min, max>> of triangles lo..hi-1 (0-based)
AabbOf(tris, lo, hi) ==
    LET Coords(axis) ==
            UNION {{tris[i + 1].p0[axis], tris[i + 1].p1[axis], tris[i + 1].p2[axis]}
                   : i \in lo..(hi - 1)}
    IN  << <<MinOf(Coords(1)), MinOf(Coords(2)), MinOf(Coords(3))>>,
           <<MaxOf(Coords(1)), MaxOf(Coords(2)), MaxOf(Coords(3))>> >>

\* struct BvhNode
LeafNode(tris, lo, hi) ==
    [aabb |-> AabbOf(tris, lo, hi),
     trianglesOffset |-> lo,
     secondChildOffset |-> 0,
     triangleCount |-> hi - lo,
     splitAxis |-> 0]

InteriorNode(tris, lo, hi, secondChildOffset, splitAxis) ==
    [aabb |-> AabbOf(tris, lo, hi),
     trianglesOffset |-> 0,
     secondChildOffset |-> secondChildOffset,
     triangleCount |-> 0,
     splitAxis |-> splitAxis % 3]

\* The flattened depth-first BVH over triangles lo..hi-1 whose root is stored
\* at index base: the first child of interior node i is i + 1 and
\* secondChildOffset is the index of its other child.  Median split.
RECURSIVE BalancedBvh(_, _, _, _, _, _)
BalancedBvh(tris, lo, hi, base, leafSize, axis) ==
    IF hi - lo <= leafSize
    THEN <<LeafNode(tris, lo, hi)>>
    ELSE LET mid == (lo + hi) \div 2
             first == BalancedBvh(tris, lo, mid, base + 1, leafSize, axis + 1)
             second == BalancedBvh(tris, mid, hi, base + 1 + Len(first), leafSize, axis + 1)
         IN  <<InteriorNode(tris, lo, hi, base + 1 + Len(first), axis)>> \o first \o second

\* The same layout when every second child is a one-triangle leaf: interior
\* nodes 0..n-2 in a chain, then the leaves of triangles 0..n-1.
LeftDeepBvh(tris, axis) ==
    LET n == Len(tris)
    IN  [i \in 1..(2 * n - 1) |->
            IF i - 1 <= n - 2
            THEN InteriorNode(tris, 0, n - (i - 1), 2 * n - 2 - (i - 1), axis + i - 1)
            ELSE LeafNode(tris, i - n, i - n + 1)]

\* The same layout when every first child is a one-triangle leaf: interior
\* node k at index 2k with the leaf of triangle k behind it.
RightDeepBvh(tris, axis) ==
    LET n == Len(tris)
    IN  [i \in 1..(2 * n - 1) |->
            IF (i - 1) % 2 = 0 /\ i - 1 < 2 * n - 2
            THEN InteriorNode(tris, (i - 1) \div 2, n, i + 1, axis + (i - 1) \div 2)
            ELSE LeafNode(tris, (i - 1) \div 2, (i - 1) \div 2 + 1)]

MakeScene(tris, nodes) ==
    [positionAttributes |-> tris, bvhNodes |-> nodes]

\* STACK_CAPACITY + 1 triangles in a left-deep chain: the deepest leaf has
\* exactly STACK_CAPACITY interior ancestors.
DeepChainTriangles ==
    [i \in 1..(STACK_CAPACITY + 1) |->
        CASE i % 4 = 0 -> PlaneZ1
          [] i % 4 = 1 -> PlaneZ2
          [] i % 4 = 2 -> PlaneX2
          [] i % 4 = 3 -> PlaneY2]

ThreeInALeaf == <<PlaneZ1, PlaneZ1, PlaneZ2>>
TwoCoincident == <<PlaneZ1, PlaneZ1>>
FarThenNear == <<PlaneZ2, PlaneZ1>>
NearThenFar == <<PlaneZ1, PlaneZ2>>
NearThenTwoFar == <<PlaneZ1, PlaneZ2, PlaneZ2>>
FourPlanes == <<PlaneZ1, PlaneZ2, PlaneX2, PlaneY2>>
FourPlanesMixed == <<PlaneX2, PlaneZ1, PlaneY2, PlaneZ2>>
FourPlanesReversed == <<PlaneY2, PlaneX2, PlaneZ2, PlaneZ1>>

Scenes ==
    << MakeScene(<<PlaneZ2>>, BalancedBvh(<<PlaneZ2>>, 0, 1, 0, 1, 0)),
       MakeScene(ThreeInALeaf, BalancedBvh(ThreeInALeaf, 0, 3, 0, 3, 0)),
       MakeScene(FarThenNear, BalancedBvh(FarThenNear, 0, 2, 0, 2, 0)),
       MakeScene(NearThenFar, BalancedBvh(NearThenFar, 0, 2, 0, 1, 2)),
       MakeScene(FarThenNear, BalancedBvh(FarThenNear, 0, 2, 0, 1, 2)),
       MakeScene(NearThenTwoFar, RightDeepBvh(NearThenTwoFar, 2)),
       MakeScene(FourPlanes, BalancedBvh(FourPlanes, 0, 4, 0, 1, 0)),
       MakeScene(FourPlanesMixed, BalancedBvh(FourPlanesMixed, 0, 4, 0, 2, 1)),
       MakeScene(FourPlanes, LeftDeepBvh(FourPlanes, 2)),
       MakeScene(FourPlanesReversed, RightDeepBvh(FourPlanesReversed, 1)),
       MakeScene(DeepChainTriangles, LeftDeepBvh(DeepChainTriangles, 2)),
       MakeScene(TwoCoincident, BalancedBvh(TwoCoincident, 0, 2, 0, 1, 0)) >>

NumNodes(s) == Len(Scenes[s].bvhNodes)
NumTriangles(s) == Len(Scenes[s].positionAttributes)
BvhNodeAt(s, idx) == Scenes[s].bvhNodes[idx + 1]
PositionsAt(s, idx) == Scenes[s].positionAttributes[idx + 1]
TextureDescriptorIdxAt(s, triangleIdx) == triangleIdx % 2

\* struct Ray: origins on the grid, every non-zero direction with components
\* in -1..1
RaySet ==
    {r \in [origin : (0..GridMax) \X (0..GridMax) \X (0..GridMax),
            direction : (-1..1) \X (-1..1) \X (-1..1)] :
        r.direction # <<0, 0, 0>>}

RayTMaxSet == {FInt(ShortTMax), FInt(T_MAX)}

\* struct RayAabbIntersector
RayAabbIntersector(r) ==
    LET invDirection == [i \in 1..3 |-> F(1, r.direction[i])]
    IN  [origin |-> r.origin,
         invDir |-> invDirection,
         dirNeg |-> [i \in 1..3 |-> IF FLt(invDirection[i], FZero) THEN 1 ELSE 0]]

RayIntersectAabb(intersector, aabb, tMax) ==
    LET Slab(which, axis) ==
            FMul(FInt(aabb[which + 1][axis] - intersector.origin[axis]),
                 intersector.invDir[axis])
        tmin0 == Slab(intersector.dirNeg[1], 1)
        tmax0 == Slab(1 - intersector.dirNeg[1], 1)
        tymin == Slab(intersector.dirNeg[2], 2)
        tymax == Slab(1 - intersector.dirNeg[2], 2)
        tmin1 == FMax(tymin, tmin0)
        tmax1 == FMin(tymax, tmax0)
        tzmin == Slab(intersector.dirNeg[3], 3)
        tzmax == Slab(1 - intersector.dirNeg[3], 3)
        tmin2 == FMax(tzmin, tmin1)
        tmax2 == FMin(tzmax, tmax1)
    IN  IF FGt(tmin0, tymax) \/ FGt(tymin, tmax0) THEN FALSE
        ELSE IF FGt(tmin1, tzmax) \/ FGt(tzmin, tmax1) THEN FALSE
        ELSE FLt(tmin2, tMax) /\ FGt(tmax2, FZero)

\* p moved by less than a grid step towards the side of n on every axis
OffsetPosition(p, n) ==
    [p |-> p, towards |-> <<Sgn(n[1]), Sgn(n[2]), Sgn(n[3])>>]

\* struct TriangleHit, with the boolean result as field hit
NoTriangleHit == [hit |-> FALSE, p |-> <<>>, b |-> <<>>, t |-> FZero]

RayIntersectTriangleNoSumCheck(r, tri, tmax) ==
    LET e1 == VSub(tri.p1, tri.p0)
        e2 == VSub(tri.p2, tri.p0)
        h == VCross(r.direction, e2)
        det == FInt(VDot(e1, h))
        invDet == F(1, det[1])
        s == VSub(r.origin, tri.p0)
        u == FMul(invDet, FInt(VDot(s, h)))
        q == VCross(s, e1)
        v == FMul(invDet, FInt(VDot(r.direction, q)))
        t == FMul(invDet, FInt(VDot(e2, q)))
    IN  IF FGt(det, FNeg(EPSILON)) /\ FLt(det, EPSILON) THEN NoTriangleHit
        ELSE IF FLt(u, FZero) \/ FGt(u, FOne) THEN NoTriangleHit
        ELSE IF FLt(v, FZero) THEN NoTriangleHit
        ELSE IF FGt(t, EPSILON) /\ FLt(t, tmax)
        THEN LET pt == [i \in 1..3 |->
                          FAdd(FAdd(FInt(tri.p0[i]), FMul(u, FInt(e1[i]))),
                               FMul(v, FInt(e2[i])))]
                 n == VCross(e1, e2)
             IN  [hit |-> TRUE,
                  p |-> OffsetPosition(pt, n),
                  b |-> <<FSub(FSub(FOne, u), v), u, v>>,
                  t |-> t]
        ELSE NoTriangleHit

RayIntersectTriangleAtTMax(r, tri, tmax) ==
    LET e1 == VSub(tri.p1, tri.p0)
        e2 == VSub(tri.p2, tri.p0)
        h == VCross(r.direction, e2)
        det == FInt(VDot(e1, h))
        invDet == F(1, det[1])
        s == VSub(r.origin, tri.p0)
        u == FMul(invDet, FInt(VDot(s, h)))
        q == VCross(s, e1)
        v == FMul(invDet, FInt(VDot(r.direction, q)))
        t == FMul(invDet, FInt(VDot(e2, q)))
    IN  IF FGt(det, FNeg(EPSILON)) /\ FLt(det, EPSILON) THEN NoTriangleHit
        ELSE IF FLt(u, FZero) \/ FGt(u, FOne) THEN NoTriangleHit
        ELSE IF FLt(v, FZero) \/ FGt(FAdd(u, v), FOne) THEN NoTriangleHit
        ELSE IF FGt(t, EPSILON) /\ FLe(t, tmax)
        THEN LET pt == [i \in 1..3 |->
                          FAdd(FAdd(FInt(tri.p0[i]), FMul(u, FInt(e1[i]))),
                               FMul(v, FInt(e2[i])))]
                 n == VCross(e1, e2)
             IN  [hit |-> TRUE,
                  p |-> OffsetPosition(pt, n),
                  b |-> <<FSub(FSub(FOne, u), v), u, v>>,
                  t |-> t]
        ELSE NoTriangleHit

RayIntersectTriangle(r, tri, tmax) ==
    LET e1 == VSub(tri.p1, tri.p0)
        e2 == VSub(tri.p2, tri.p0)
        h == VCross(r.direction, e2)
        det == FInt(VDot(e1, h))
        invDet == F(1, det[1])
        s == VSub(r.origin, tri.p0)
        u == FMul(invDet, FInt(VDot(s, h)))
        q == VCross(s, e1)
        v == FMul(invDet, FInt(VDot(r.direction, q)))
        t == FMul(invDet, FInt(VDot(e2, q)))
    IN  IF FGt(det, FNeg(EPSILON)) /\ FLt(det, EPSILON) THEN NoTriangleHit
        ELSE IF FLt(u, FZero) \/ FGt(u, FOne) THEN NoTriangleHit
        ELSE IF FLt(v, FZero) \/ FGt(FAdd(u, v), FOne) THEN NoTriangleHit
        ELSE IF FGt(t, EPSILON) /\ FLt(t, tmax)
        THEN LET pt == [i \in 1..3 |->
                          FAdd(FAdd(FInt(tri.p0[i]), FMul(u, FInt(e1[i]))),
                               FMul(v, FInt(e2[i])))]
                 n == VCross(e1, e2)
             IN  [hit |-> TRUE,
                  p |-> OffsetPosition(pt, n),
                  b |-> <<FSub(FSub(FOne, u), v), u, v>>,
                  t |-> t]
        ELSE NoTriangleHit

\* struct Intersection; n and uv are the vertex attributes of triangleIdx
\* weighted by b
MakeIntersection(s, triangleIdx, trihit) ==
    [p |-> trihit.p,
     n |-> <<triangleIdx, trihit.b>>,
     uv |-> <<triangleIdx, trihit.b>>,
     textureDescriptorIdx |-> TextureDescriptorIdxAt(s, triangleIdx)]

ZeroIntersection ==
    [p |-> <<>>, n |-> <<>>, uv |-> <<>>, textureDescriptorIdx |-> 0]

\* ---- the explicit stack, shared text of both traversals ----
PushIndexOffByOne(toVisitOffset) == toVisitOffset + 1

PushIndex(toVisitOffset) == toVisitOffset

\* nodesToVisit[toVisitOffset] = value; toVisitOffset += 1u.  A write past the
\* end of the array is discarded by the shader runtime and recorded in
\* outOfBounds.
Push(l, value) ==
    LET i == PushIndex(l.toVisitOffset)
    IN  [l EXCEPT !.nodesToVisit =
                      IF i < STACK_CAPACITY THEN [@ EXCEPT ![i] = value] ELSE @,
                  !.outOfBounds = @ \/ i >= STACK_CAPACITY,
                  !.toVisitOffset = @ + 1]

PopOrBreakNoDecrement(l) ==
    IF l.toVisitOffset = 0
    THEN [l EXCEPT !.running = FALSE]
    ELSE [l EXCEPT !.currentNodeIdx = l.nodesToVisit[l.toVisitOffset - 1]]

\* if toVisitOffset == 0u { break; } toVisitOffset -= 1u;
\* currentNodeIdx = nodesToVisit[toVisitOffset];
PopOrBreak(l) ==
    IF l.toVisitOffset = 0
    THEN [l EXCEPT !.running = FALSE]
    ELSE [l EXCEPT !.toVisitOffset = @ - 1,
                   !.currentNodeIdx = l.nodesToVisit[l.toVisitOffset - 1]]

\* the two children exchanged
PushNearDescendFar(l, node, intersector) ==
    IF intersector.dirNeg[node.splitAxis + 1] = 1
    THEN [Push(l, node.secondChildOffset) EXCEPT !.currentNodeIdx = l.currentNodeIdx + 1]
    ELSE [Push(l, l.currentNodeIdx + 1) EXCEPT !.currentNodeIdx = node.secondChildOffset]

\* interior node: push the far child, continue with the near child
PushFarDescendNear(l, node, intersector) ==
    IF intersector.dirNeg[node.splitAxis + 1] = 1
    THEN [Push(l, l.currentNodeIdx + 1) EXCEPT !.currentNodeIdx = node.secondChildOffset]
    ELSE [Push(l, node.secondChildOffset) EXCEPT !.currentNodeIdx = l.currentNodeIdx + 1]

\* ---- rayIntersectBvh ----
RayIntersectBvhLocals(tMax) ==
    [toVisitOffset |-> 0,
     currentNodeIdx |-> 0,
     nodesToVisit |-> [i \in 0..(STACK_CAPACITY - 1) |-> 0],
     didIntersect |-> FALSE,
     tmax |-> tMax,
     hit |-> ZeroIntersection,
     running |-> TRUE,
     outOfBounds |-> FALSE,
     visited |-> <<>>,
     tested |-> <<>>]

RECURSIVE ClosestLeafLoopNoShrink(_, _, _, _, _)
ClosestLeafLoopNoShrink(s, r, node, idx, l) ==
    IF idx >= node.triangleCount THEN l
    ELSE LET triangleIdx == node.trianglesOffset + idx
             trihit == RayIntersectTriangle(r, PositionsAt(s, triangleIdx), l.tmax)
             tested == Append(l.tested, triangleIdx)
         IN  ClosestLeafLoopNoShrink(s, r, node, idx + 1,
                 IF trihit.hit
                 THEN [l EXCEPT !.didIntersect = TRUE,
                                !.hit = MakeIntersection(s, triangleIdx, trihit),
                                !.tested = tested]
                 ELSE [l EXCEPT !.tested = tested])

\* the for loop over the triangles of a leaf, from idx on
RECURSIVE ClosestLeafLoop(_, _, _, _, _)
ClosestLeafLoop(s, r, node, idx, l) ==
    IF idx >= node.triangleCount THEN l
    ELSE LET triangleIdx == node.trianglesOffset + idx
             trihit == RayIntersectTriangle(r, PositionsAt(s, triangleIdx), l.tmax)
             tested == Append(l.tested, triangleIdx)
         IN  ClosestLeafLoop(s, r, node, idx + 1,
                 IF trihit.hit
                 THEN [l EXCEPT !.tmax = trihit.t,
                                !.didIntersect = TRUE,
                                !.hit = MakeIntersection(s, triangleIdx, trihit),
                                !.tested = tested]
                 ELSE [l EXCEPT !.tested = tested])

\* one iteration of the loop of rayIntersectBvh
RayIntersectBvhIteration(s, r, l) ==
    LET node == BvhNodeAt(s, l.currentNodeIdx)
        intersector == RayAabbIntersector(r)
        here == [l EXCEPT !.visited = Append(@, l.currentNodeIdx)]
    IN  IF RayIntersectAabb(intersector, node.aabb, l.tmax)
        THEN IF node.triangleCount > 0
             THEN PopOrBreak(ClosestLeafLoop(s, r, node, 0, here))
             ELSE PushFarDescendNear(here, node, intersector)
        ELSE PopOrBreak(here)

\* ---- shadowRay ----
ShadowRayLocals ==
    [toVisitOffset |-> 0,
     currentNodeIdx |-> 0,
     nodesToVisit |-> [i \in 0..(STACK_CAPACITY - 1) |-> 0],
     running |-> TRUE,
     result |-> 1,
     outOfBounds |-> FALSE,
     visited |-> <<>>,
     tested |-> <<>>]

RECURSIVE ShadowLeafLoopFirstOnly(_, _, _, _, _, _)
ShadowLeafLoopFirstOnly(s, r, tMax, node, idx, l) ==
    IF idx >= 1 THEN l
    ELSE LET triangleIdx == node.trianglesOffset + idx
             trihit == RayIntersectTriangle(r, PositionsAt(s, triangleIdx), tMax)
             tested == Append(l.tested, triangleIdx)
         IN  IF trihit.hit
             THEN [l EXCEPT !.tested = tested, !.result = 0, !.running = FALSE]
             ELSE ShadowLeafLoopFirstOnly(s, r, tMax, node, idx + 1,
                                          [l EXCEPT !.tested = tested])

RECURSIVE ShadowLeafLoopNoReturn(_, _, _, _, _, _)
ShadowLeafLoopNoReturn(s, r, tMax, node, idx, l) ==
    IF idx >= node.triangleCount THEN l
    ELSE LET triangleIdx == node.trianglesOffset + idx
             trihit == RayIntersectTriangle(r, PositionsAt(s, triangleIdx), tMax)
             tested == Append(l.tested, triangleIdx)
         IN  ShadowLeafLoopNoReturn(s, r, tMax, node, idx + 1,
                 IF trihit.hit
                 THEN [l EXCEPT !.tested = tested, !.result = 0, !.running = FALSE]
                 ELSE [l EXCEPT !.tested = tested])

\* the for loop over the triangles of a leaf, from idx on; return 0f at the
\* first triangle hit
RECURSIVE ShadowLeafLoop(_, _, _, _, _, _)
ShadowLeafLoop(s, r, tMax, node, idx, l) ==
    IF idx >= node.triangleCount THEN l
    ELSE LET triangleIdx == node.trianglesOffset + idx
             trihit == RayIntersectTriangle(r, PositionsAt(s, triangleIdx), tMax)
             tested == Append(l.tested, triangleIdx)
         IN  IF trihit.hit
             THEN [l EXCEPT !.tested = tested, !.result = 0, !.running = FALSE]
             ELSE ShadowLeafLoop(s, r, tMax, node, idx + 1,
                                 [l EXCEPT !.tested = tested])

\* one iteration of the loop of shadowRay
ShadowRayIteration(s, r, tMax, l) ==
    LET node == BvhNodeAt(s, l.currentNodeIdx)
        intersector == RayAabbIntersector(r)
        here == [l EXCEPT !.visited = Append(@, l.currentNodeIdx)]
    IN  IF RayIntersectAabb(intersector, node.aabb, tMax)
        THEN IF node.triangleCount > 0
             THEN LET after == ShadowLeafLoop(s, r, tMax, node, 0, here)
                  IN  IF after.running THEN PopOrBreak(after) ELSE after
             ELSE PushFarDescendNear(here, node, intersector)
        ELSE PopOrBreak(here)

\* ---- the two queries on one ray, one loop iteration per step ----
InitBvh ==
    /\ IdleOutsideBvh
    /\ scene \in 1..Len(Scenes)
    /\ ray \in RaySet
    /\ rayTMax \in RayTMaxSet
    /\ pc = "closest"
    /\ closest = RayIntersectBvhLocals(rayTMax)
    /\ shadow = ShadowRayLocals

RayIntersectBvhStep ==
    /\ pc = "closest"
    /\ closest' = RayIntersectBvhIteration(scene, ray, closest)
    /\ pc' = IF closest'.running THEN "closest" ELSE "shadow"
    /\ UNCHANGED <<scene, ray, rayTMax, shadow>>
    /\ UNCHANGED outsideBvh

ShadowRayStep ==
    /\ pc = "shadow"
    /\ shadow' = ShadowRayIteration(scene, ray, rayTMax, shadow)
    /\ pc' = IF shadow'.running THEN "shadow" ELSE "done"
    /\ UNCHANGED <<scene, ray, rayTMax, closest>>
    /\ UNCHANGED outsideBvh

NextBvh ==
    \/ RayIntersectBvhStep
    \/ ShadowRayStep

SpecBvh == InitBvh /\ [][NextBvh]_vars

(***************************************************************************)
(* Claims about the BVH traversal.                                         *)
(***************************************************************************)
TriangleIdxs == 0..(NumTriangles(scene) - 1)

\* the triangle routine on triangle i of the scene with the query's rayTMax
BruteForceHit(i) == RayIntersectTriangle(ray, PositionsAt(scene, i), rayTMax)

\* the triangle routine on triangle i without an upper limit on t
UnboundedHit(i) == RayIntersectTriangle(ray, PositionsAt(scene, i), FInfinity)

ClosestReturned == pc \in {"shadow", "done"}

\* the triangle whose vertex attributes the Intersection written carries
HitTriangleIdx == closest.hit.n[1]

\* the Intersection written is that of a triangle of minimum hit distance
HitIsAClosestOne ==
    /\ HitTriangleIdx \in TriangleIdxs
    /\ BruteForceHit(HitTriangleIdx).hit
    /\ \A j \in TriangleIdxs :
           BruteForceHit(j).hit
               => FLe(BruteForceHit(HitTriangleIdx).t, BruteForceHit(j).t)
    /\ closest.hit = MakeIntersection(scene, HitTriangleIdx, BruteForceHit(HitTriangleIdx))

\* C4 (as stated): rayIntersectBvh returns true exactly when some triangle is
\* intersected at or before rayTMax, and the hit written belongs to a
\* triangle of minimum hit distance over all triangles of the scene.
C4_HitAtOrBeforeTMax ==
    ClosestReturned =>
        /\ closest.didIntersect <=>
               \E i \in TriangleIdxs :
                   UnboundedHit(i).hit /\ FLe(UnboundedHit(i).t, rayTMax)
        /\ closest.didIntersect => HitIsAClosestOne

\* C4 (amended): rayIntersectBvh returns true exactly when some triangle is
\* intersected at a distance strictly below rayTMax (and above EPSILON), and
\* the hit written equals that of a brute-force scan: it belongs to a
\* triangle of minimum hit distance over all triangles of the scene.
C4_HitStrictlyBeforeTMax ==
    ClosestReturned =>
        /\ closest.didIntersect <=>
               \E i \in TriangleIdxs :
                   UnboundedHit(i).hit /\ FLt(UnboundedHit(i).t, rayTMax)
        /\ closest.didIntersect <=> \E i \in TriangleIdxs : BruteForceHit(i).hit
        /\ closest.didIntersect => HitIsAClosestOne

\* C4 witness: a closest hit was returned for a ray that hits two triangles
\* at different distances, in a BVH where the traversal skipped some node.
C4_Witness ==
    /\ ClosestReturned
    /\ closest.didIntersect
    /\ \E j \in TriangleIdxs :
           /\ BruteForceHit(j).hit
           /\ FLt(BruteForceHit(HitTriangleIdx).t, BruteForceHit(j).t)
    /\ Len(closest.visited) < NumNodes(scene)

\* C5: if rayIntersectBvh reports a hit, shadowRay with the same ray and the
\* same rayTMax returns 0.
C5_ClosestHitImpliesOccluded ==
    pc = "done" => (closest.didIntersect => shadow.result = 0)

\* C5 witness: both queries finished, the closest-hit query hit a triangle
\* and shadowRay stopped on another one.
C5_Witness ==
    /\ pc = "done"
    /\ closest.didIntersect
    /\ shadow.result = 0
    /\ shadow.tested[Len(shadow.tested)] # HitTriangleIdx

\* C6: shadowRay returns 0 at the first tested triangle that is intersected
\* before rayTMax, so that triangle is the last one tested and its leaf the
\* last node visited; it returns 1 only when no triangle of the scene is
\* intersected before rayTMax.
C6_AnyHitReturnsAtFirstHit ==
    pc \in {"shadow", "done"} =>
        /\ \A k \in 1..Len(shadow.tested) :
               BruteForceHit(shadow.tested[k]).hit <=>
                   (k = Len(shadow.tested) /\ ~shadow.running /\ shadow.result = 0)
        /\ (~shadow.running /\ shadow.result = 0) =>
               /\ shadow.tested # <<>>
               /\ LET leaf == BvhNodeAt(scene, shadow.visited[Len(shadow.visited)])
                      last == shadow.tested[Len(shadow.tested)]
                  IN  /\ leaf.triangleCount > 0
                      /\ last >= leaf.trianglesOffset
                      /\ last < leaf.trianglesOffset + leaf.triangleCount
        /\ (pc = "done" /\ shadow.result = 1) =>
               \A i \in TriangleIdxs : ~BruteForceHit(i).hit

\* C6 witness: shadowRay returned 0 from a leaf whose later triangles, and
\* later nodes of the BVH, were never looked at.
C6_Witness ==
    /\ pc = "done"
    /\ shadow.result = 0
    /\ LET leaf == BvhNodeAt(scene, shadow.visited[Len(shadow.visited)])
       IN  shadow.tested[Len(shadow.tested)] + 1
               < leaf.trianglesOffset + leaf.triangleCount
    /\ shadow.toVisitOffset > 0

StackInBounds(l) ==
    /\ l.toVisitOffset \in 0..STACK_CAPACITY
    /\ ~l.outOfBounds

\* C7: in both traversals every write to nodesToVisit uses an index in
\* 0..STACK_CAPACITY-1, toVisitOffset never goes below 0, and the stack never
\* holds more than STACK_CAPACITY entries (every leaf of every scene has at
\* most STACK_CAPACITY interior ancestors).
C7_StackInBounds ==
    pc \in {"closest", "shadow", "done"} =>
        /\ StackInBounds(closest)
        /\ StackInBounds(shadow)

\* C7 witness: the stack of rayIntersectBvh is full, its last slot written.
C7_Witness ==
    /\ pc = "closest"
    /\ closest.toVisitOffset = STACK_CAPACITY
    /\ closest.nodesToVisit[STACK_CAPACITY - 1] # 0

EachNodeAtMostOnce(l) ==
    /\ Cardinality({l.visited[k] : k \in 1..Len(l.visited)}) = Len(l.visited)
    /\ Len(l.visited) <= NumNodes(scene)

\* C8: both traversal loops terminate, visiting each node at most once: no
\* node index occurs twice among the nodes visited, so a loop runs at most
\* NumNodes iterations, and a loop that has not returned stands at a node of
\* the BVH, from which its next iteration is defined.
C8_TerminatesVisitingEachNodeOnce ==
    pc \in {"closest", "shadow", "done"} =>
        /\ EachNodeAtMostOnce(closest)
        /\ EachNodeAtMostOnce(shadow)
        /\ closest.running <=> pc = "closest"
        /\ pc = "shadow" => shadow.running
        /\ pc = "closest" => closest.currentNodeIdx \in 0..(NumNodes(scene) - 1)
        /\ pc = "shadow" => shadow.currentNodeIdx \in 0..(NumNodes(scene) - 1)

\* C8 witness: both queries returned after visiting every node of a BVH with
\* interior nodes.
C8_Witness ==
    /\ pc = "done"
    /\ NumNodes(scene) > 1
    /\ Len(closest.visited) = NumNodes(scene)
    /\ Len(shadow.visited) = NumNodes(scene)

\* the positions in closest.tested of the triangles the ray meets at the
\* distance of the recorded hit
TestedAtHitDistance ==
    {k \in 1..Len(closest.tested) :
        /\ BruteForceHit(closest.tested[k]).hit
        /\ BruteForceHit(closest.tested[k]).t = closest.tmax}

\* C19: among the triangles tested so far that the ray meets at the distance
\* of the recorded hit, the recorded one was tested first: a triangle tested
\* later at an equal t has not replaced it.
C19_FirstTestedWinsTies ==
    (pc \in {"closest", "shadow", "done"} /\ closest.didIntersect) =>
        /\ BruteForceHit(HitTriangleIdx).hit
        /\ BruteForceHit(HitTriangleIdx).t = closest.tmax
        /\ \A k \in TestedAtHitDistance :
               \E m \in 1..k : closest.tested[m] = HitTriangleIdx

\* C19 witness: rayIntersectBvh has returned a hit, and a triangle of lower
\* index was tested after the recorded one, at an equal t.
C19_Witness ==
    /\ ClosestReturned
    /\ closest.didIntersect
    /\ \E k \in TestedAtHitDistance :
           /\ closest.tested[k] < HitTriangleIdx
           /\ \E m \in 1..(k - 1) : closest.tested[m] = HitTriangleIdx

\* ---- the shape of the flattened tree, per scene ----
IsInterior(s, idx) == BvhNodeAt(s, idx).triangleCount = 0

\* the interior node that has idx as one of its two children (-1 for the root)
ParentOfNode ==
    [s \in 1..Len(Scenes) |->
        [c \in 0..(NumNodes(s) - 1) |->
            IF c = 0 THEN -1
            ELSE CHOOSE p \in 0..(c - 1) :
                     /\ IsInterior(s, p)
                     /\ (p + 1 = c \/ BvhNodeAt(s, p).secondChildOffset = c)]]

\* one past the last index of the subtree rooted at idx (depth-first layout)
SubtreeEnd ==
    [s \in 1..Len(Scenes) |->
        [c \in 0..(NumNodes(s) - 1) |->
            MinOf({BvhNodeAt(s, a).secondChildOffset :
                      a \in {x \in 0..(c - 1) :
                                /\ IsInterior(s, x)
                                /\ BvhNodeAt(s, x).secondChildOffset > c}}
                  \cup {NumNodes(s)})]]

InSubtree(idx, root) == root <= idx /\ idx < SubtreeEnd[scene][root]

\* near and far child of interior node idx for the ray of the query, by the
\* sign of the ray direction along the node's splitAxis
NearChild(idx) ==
    IF ray.direction[BvhNodeAt(scene, idx).splitAxis + 1] < 0
    THEN BvhNodeAt(scene, idx).secondChildOffset
    ELSE idx + 1

FarChild(idx) ==
    IF ray.direction[BvhNodeAt(scene, idx).splitAxis + 1] < 0
    THEN idx + 1
    ELSE BvhNodeAt(scene, idx).secondChildOffset

VisitedSet(l) == {l.visited[k] : k \in 1..Len(l.visited)}

\* directly after an interior node whose box the ray hits: the traversal
\* stands at the near child and the far child is on top of the stack
PushedFarDescendedNear(l, tMax) ==
    Len(l.visited) > 0 =>
        LET idx == l.visited[Len(l.visited)]
        IN  (/\ IsInterior(scene, idx)
             /\ RayIntersectAabb(RayAabbIntersector(ray),
                                 BvhNodeAt(scene, idx).aabb, tMax))
            => /\ l.running
               /\ l.currentNodeIdx = NearChild(idx)
               /\ l.toVisitOffset > 0
               /\ l.nodesToVisit[l.toVisitOffset - 1] = FarChild(idx)

\* the node visited last lies in no near subtree whose far sibling has been
\* visited before it, and if it is itself a far child, its parent and its
\* near sibling were visited before it
FarAfterNearSubtree(l) ==
    Len(l.visited) > 0 =>
        LET last == l.visited[Len(l.visited)]
            before == {l.visited[k] : k \in 1..(Len(l.visited) - 1)}
        IN  /\ \A y \in before :
                   (y # 0 /\ y = FarChild(ParentOfNode[scene][y]))
                       => ~InSubtree(last, NearChild(ParentOfNode[scene][y]))
            /\ (last # 0 /\ last = FarChild(ParentOfNode[scene][last]))
                   => /\ ParentOfNode[scene][last] \in before
                      /\ NearChild(ParentOfNode[scene][last]) \in before

\* a finished traversal has visited both children of every node it descended
FarVisitedInTheEnd(l) ==
    \A y \in VisitedSet(l) :
        y # 0 => /\ NearChild(ParentOfNode[scene][y]) \in VisitedSet(l)
                 /\ FarChild(ParentOfNode[scene][y]) \in VisitedSet(l)

BoxMax == 1

\* struct Aabb <<min, max>>, every corner pair on the grid
AabbSet ==
    ((0..BoxMax) \X (0..BoxMax) \X (0..BoxMax))
        \X ((0..BoxMax) \X (0..BoxMax) \X (0..BoxMax))

\* rays that start at or before the low corner of the grid
AabbRaySet ==
    {r \in [origin : (-1..0) \X (-1..0) \X (-1..0),
            direction : (-1..1) \X (-1..1) \X (-1..1)] :
        r.direction # <<0, 0, 0>>}

InitAabb ==
    /\ IdleOutsideAabb
    /\ \E r \in AabbRaySet, box \in AabbSet, tMax \in RayTMaxSet :
           aabbTest = [called |-> FALSE, ray |-> r, aabb |-> box,
                       rayTMax |-> tMax, result |-> FALSE]

\* rayIntersectAabb(rayAabbIntersector(ray), aabb, rayTMax)
CallRayIntersectAabb ==
    /\ ~aabbTest.called
    /\ aabbTest' =
           [aabbTest EXCEPT
               !.called = TRUE,
               !.result = RayIntersectAabb(RayAabbIntersector(aabbTest.ray),
                                           aabbTest.aabb, aabbTest.rayTMax)]
    /\ UNCHANGED outsideAabb

NextAabb ==
    CallRayIntersectAabb

SpecAabb == InitAabb /\ [][NextAabb]_vars

\* a box whose min exceeds its max on at least one axis
IsDegenerate(box) ==
    \E axis \in 1..3 : box[1][axis] > box[2][axis]

\* C11: rayIntersectAabb never reports an intersection for a degenerate box,
\* whatever the ray and rayTMax.
C11_DegenerateBoxNeverHit ==
    (aabbTest.called /\ IsDegenerate(aabbTest.aabb)) => ~aabbTest.result

(***************************************************************************)
(* rayIntersectTriangle on its own.                                        *)
(***************************************************************************)
\* the triangle of the unit test, one without a right angle, one with
\* collinear vertices; their determinants are 0 or powers of two as well
UnitTestTriangle == Positions(<<0, 0, 1>>, <<1, 0, 1>>, <<0, 1, 1>>)
IsoscelesTriangle == Positions(<<0, 0, 1>>, <<2, 0, 1>>, <<1, 2, 1>>)
CollinearTriangle == Positions(<<0, 0, 1>>, <<1, 1, 1>>, <<2, 2, 1>>)

TriangleSet ==
    {PlaneZ1, PlaneZ2, PlaneX2, PlaneY2,
     UnitTestTriangle, IsoscelesTriangle, CollinearTriangle}

TriangleTMaxSet == {FInt(1), FInt(ShortTMax), FInt(T_MAX)}

InitTriangle ==
    /\ IdleOutsideTriangle
    /\ \E r \in RaySet, tri \in TriangleSet, tmax \in TriangleTMaxSet :
           triangleTest = [called |-> FALSE, ray |-> r, tri |-> tri,
                           tmax |-> tmax, hit |-> NoTriangleHit]

\* rayIntersectTriangle(ray, tri, tmax, &hit)
CallRayIntersectTriangle ==
    /\ ~triangleTest.called
    /\ triangleTest' =
           [triangleTest EXCEPT
               !.called = TRUE,
               !.hit = RayIntersectTriangle(triangleTest.ray, triangleTest.tri,
                                            triangleTest.tmax)]
    /\ UNCHANGED outsideTriangle

NextTriangle ==
    CallRayIntersectTriangle

SpecTriangle == InitTriangle /\ [][NextTriangle]_vars

\* dot(e1, cross(direction, e2)) of the call
TestDet ==
    VDot(VSub(triangleTest.tri.p1, triangleTest.tri.p0),
         VCross(triangleTest.ray.direction,
                VSub(triangleTest.tri.p2, triangleTest.tri.p0)))

\* origin + t * direction = p0 + u * e1 + v * e2 on every axis
OnRayAndTriangle(t, u, v) ==
    \A i \in 1..3 :
        FAdd(FInt(triangleTest.ray.origin[i]),
             FMul(t, FInt(triangleTest.ray.direction[i])))
          = FAdd(FAdd(FInt(triangleTest.tri.p0[i]),
                      FMul(u, FInt(triangleTest.tri.p1[i] - triangleTest.tri.p0[i]))),
                 FMul(v, FInt(triangleTest.tri.p2[i] - triangleTest.tri.p0[i])))

\* twice the points p0 + (a * e1 + b * e2) / 2 of the triangle, a + b <= 2
KnownPointsTimes2 ==
    {[i \in 1..3 |->
         2 * triangleTest.tri.p0[i]
           + ab[1] * (triangleTest.tri.p1[i] - triangleTest.tri.p0[i])
           + ab[2] * (triangleTest.tri.p2[i] - triangleTest.tri.p0[i])] :
     ab \in {x \in (0..2) \X (0..2) : x[1] + x[2] <= 2}}

\* the ray of the call passes through known point k2 / 2 at parameter n / 2
RayThrough(k2, n) ==
    \A i \in 1..3 :
        2 * triangleTest.ray.origin[i] + n * triangleTest.ray.direction[i] = k2[i]

MantissaBits == 4
FracBits == 6

RECURSIVE Pow2(_)
Pow2(n) == IF n = 0 THEN 1 ELSE 2 * Pow2(n - 1)

RECURSIVE BitLength(_)
BitLength(k) == IF k = 0 THEN 0 ELSE 1 + BitLength(k \div 2)

FloatUnit == Pow2(FracBits)

\* round to nearest representable, ties to even
RoundMagnitude(k) ==
    IF BitLength(k) <= MantissaBits THEN k
    ELSE LET step == Pow2(BitLength(k) - MantissaBits)
             q == k \div step
             rem == k % step
             up == 2 * rem > step \/ (2 * rem = step /\ q % 2 = 1)
         IN  (IF up THEN q + 1 ELSE q) * step

RoundFloat(k) == IF k < 0 THEN -RoundMagnitude(-k) ELSE RoundMagnitude(k)

\* floor(e), in units
FloatFloor(k) == (k \div FloatUnit) * FloatUnit

\* fract(e) = e - floor(e), rounded
Fract(k) == RoundFloat(k - FloatFloor(k))

\* u32(e) of a non-negative value: truncation
FloatToU32(k) == k \div FloatUnit

\* struct TextureDescriptor <<width, height, offset>>
TextureDescriptorSet == {<<4, 4, 0>>, <<2, 3, 16>>, <<1, 1, 22>>}

\* the representable values of [-2, 2]
UvComponentSet ==
    {k \in (-2 * FloatUnit)..(2 * FloatUnit) : RoundFloat(k) = k}

\* the texel coordinates <<i, j>> textureLookup computes
TexelCoordinates(desc, uv) ==
    LET u == Fract(uv[1])
        v == Fract(uv[2])
        j == FloatToU32(RoundFloat(u * desc[1]))
        i == FloatToU32(RoundFloat(v * desc[2]))
    IN  <<i, j>>

\* idx = i * desc.width + j
TexelIndex(desc, uv) ==
    TexelCoordinates(desc, uv)[1] * desc[1] + TexelCoordinates(desc, uv)[2]

InitTexture ==
    /\ IdleOutsideTexture
    /\ \E desc \in TextureDescriptorSet, uv \in UvComponentSet \X UvComponentSet :
           textureTest = [called |-> FALSE, desc |-> desc, uv |-> uv,
                          i |-> 0, j |-> 0, idx |-> 0]

\* textureLookup(desc, uv), up to the read of textures[desc.offset + idx]
CallTextureLookup ==
    /\ ~textureTest.called
    /\ textureTest' =
           [textureTest EXCEPT
               !.called = TRUE,
               !.i = TexelCoordinates(textureTest.desc, textureTest.uv)[1],
               !.j = TexelCoordinates(textureTest.desc, textureTest.uv)[2],
               !.idx = TexelIndex(textureTest.desc, textureTest.uv)]
    /\ UNCHANGED outsideTexture

NextTexture ==
    CallTextureLookup

SpecTexture == InitTexture /\ [][NextTexture]_vars

\* uv + (m, n) where both sums are representable, so that the shifted lookup
\* is given exactly the shifted coordinates
ShiftedUvs ==
    {<<textureTest.uv[1] + m * FloatUnit, textureTest.uv[2] + n * FloatUnit>> :
        m \in -3..3, n \in -3..3}
      \cap (UvComponentSet \X UvComponentSet)

\* C13: textureLookup is periodic in uv with period 1 on both axes, and the
\* texel index i * width + j it reads always has j < width and i < height.
C13_PeriodicAndInsideTexture ==
    textureTest.called =>
        /\ textureTest.j < textureTest.desc[1]
        /\ textureTest.i < textureTest.desc[2]
        /\ \A shifted \in ShiftedUvs :
               TexelIndex(textureTest.desc, shifted) = textureTest.idx


-----------------------------------------------------------------------------
\* The texture atlas packed by ReferencePathTracer::ReferencePathTracer
\* (reference_path_tracer.cpp:297-358).

MaxTextures == 3
MaxTextureDim == 2

\* sizeof(Texture::RgbaPixel), RgbaPixel = std::uint32_t
SizeofRgbaPixel == 4

\* wgpuRequiredLimits.limits.maxStorageBufferBindingSize: a compile-time
\* constant of ReferencePathTracer, in bytes.  The model takes the largest
\* value that is below U32Modulus pixels; every smaller limit only lets fewer
\* constructions complete.
MaxStorageBufferBindingSize == SizeofRgbaPixel * (U32Modulus - 1)

\* A Texture <<width, height, pixels.size()>>: mPixels and mDimensions are
\* independent members, so the pixel count need not be width * height.
TextureSet ==
    {<<wh[1], wh[2], n>> :
        wh \in (1..MaxTextureDim) \X (1..MaxTextureDim),
        n \in 0..(MaxTextureDim * MaxTextureDim)}
      \cap {t \in (1..MaxTextureDim) \X (1..MaxTextureDim)
                    \X (0..(MaxTextureDim * MaxTextureDim)) :
               t[3] \in {t[1] * t[2], t[1] * t[2] - 1}}

BaseColorTexturesSet ==
    UNION {[1..n -> TextureSet] : n \in 0..MaxTextures}

\* pixel i (from 1) of texture k (from 1) of the scene
PixelOf(k, i) == <<k, i>>

\* a value-initialised RgbaPixel, as std::vector::resize appends
ZeroPixel == <<0, 0>>

\* a narrower cast than the code's
AtlasOffsetNarrowCast(size) == size % 2

\* const std::uint32_t offset = static_cast<std::uint32_t>(textureData.size())
AtlasOffset(size) == size % U32Modulus

\* textureData.resize(size + pixels.size()); memcpy(data() + offset, pixels)
AppendPixels(data, k, offset, n) ==
    [i \in 1..(Len(data) + n) |->
        IF i > offset /\ i <= offset + n THEN PixelOf(k, i - offset)
        ELSE IF i <= Len(data) THEN data[i]
        ELSE ZeroPixel]

InitAtlas ==
    /\ IdleOutsideAtlas
    /\ baseColorTextures \in BaseColorTexturesSet
    /\ textureDescriptors = <<>>
    /\ textureData = <<>>
    /\ atlasPc = "packing"

\* one iteration of  for (const Texture& baseColorTexture : ...)
PackTexture ==
    /\ atlasPc = "packing"
    /\ Len(textureDescriptors) < Len(baseColorTextures)
    /\ LET k == Len(textureDescriptors) + 1
           width == baseColorTextures[k][1]
           height == baseColorTextures[k][2]
           offset == AtlasOffset(Len(textureData))
       IN  /\ textureData' =
                 AppendPixels(textureData, k, offset, baseColorTextures[k][3])
           /\ textureDescriptors' =
                 Append(textureDescriptors, <<width, height, offset>>)
    /\ UNCHANGED <<baseColorTextures, atlasPc>>
    /\ UNCHANGED outsideAtlas

\* after the loop: the size check, which throws std::runtime_error or lets
\* the constructor go on to create the texture buffer
CheckTextureBufferSize ==
    /\ atlasPc = "packing"
    /\ Len(textureDescriptors) = Len(baseColorTextures)
    /\ atlasPc' =
           IF Len(textureData) * SizeofRgbaPixel > MaxStorageBufferBindingSize
           THEN "thrown" ELSE "done"
    /\ UNCHANGED <<baseColorTextures, textureDescriptors, textureData>>
    /\ UNCHANGED outsideAtlas

NextAtlas ==
    \/ PackTexture
    \/ CheckTextureBufferSize

SpecAtlas == InitAtlas /\ [][NextAtlas]_vars

RECURSIVE PixelCountBefore(_)
\* the sum of the pixel counts of textures 1..k-1
PixelCountBefore(k) ==
    IF k <= 1 THEN 0 ELSE PixelCountBefore(k - 1) + baseColorTextures[k - 1][3]

EachTextureHoldsWidthTimesHeight ==
    \A k \in 1..Len(baseColorTextures) :
        baseColorTextures[k][3] = baseColorTextures[k][1] * baseColorTextures[k][2]

\* C14: once the constructor has packed the atlas and passed the size check,
\* descriptor k carries the width and height of texture k, its offset is the
\* sum of the pixel counts of the textures before it, the pixels of texture k
\* lie at that offset, and, when every texture holds width * height pixels,
\* offset + width * height is at most the atlas length.
C14_DescriptorsMatchAtlas ==
    atlasPc = "done" =>
        /\ Len(textureDescriptors) = Len(baseColorTextures)
        /\ \A k \in 1..Len(textureDescriptors) :
               /\ textureDescriptors[k][1] = baseColorTextures[k][1]
               /\ textureDescriptors[k][2] = baseColorTextures[k][2]
               /\ textureDescriptors[k][3] = PixelCountBefore(k)
               /\ \A i \in 1..baseColorTextures[k][3] :
                      textureData[textureDescriptors[k][3] + i] = PixelOf(k, i)
        /\ EachTextureHoldsWidthTimesHeight =>
               \A k \in 1..Len(textureDescriptors) :
                   textureDescriptors[k][3]
                     + textureDescriptors[k][1] * textureDescriptors[k][2]
                       <= Len(textureData)

\* C14 witness: a packed atlas of three textures, each of width * height
\* pixels, the last of them at a non-zero offset.
C14_Witness ==
    /\ atlasPc = "done"
    /\ Len(textureDescriptors) = 3
    /\ EachTextureHoldsWidthTimesHeight
    /\ textureDescriptors[3][3] > textureDescriptors[2][3]
    /\ textureDescriptors[2][3] > 0


-----------------------------------------------------------------------------
\* The entry point main of the deferred lighting kernel (part_001:95-130).
\* Invocations share nothing but sampleBuffer and do not read it, so the
\* model follows two invocations of one dispatch, run in either order.

MaxFramebufferDim == 2

\* @workgroup_size(8, 8)
WORKGROUP_SIZE == 8

\* global_invocation_id.xy of the invocations of the first workgroup
GlobalInvocationIds ==
    (0..(WORKGROUP_SIZE - 1)) \X (0..(WORKGROUP_SIZE - 1))

FramebufferSizeSet ==
    (1..MaxFramebufferDim) \X (1..MaxFramebufferDim)

\* globalInvocationId.x >= u32(framebufferSize.x) || ... .y >= u32(...y)
OutsideFramebuffer(gid, size) ==
    gid[1] >= size[1] \/ gid[2] >= size[2]

\* x * width + y
SampleBufferIdxColumnMajor(gid, size) ==
    gid[1] * size[1] + gid[2]

\* textureIdx.y * u32(uniforms.framebufferSize.x) + textureIdx.x.  The u32
\* product cannot wrap: the g-buffer textures and sampleBuffer exist at the
\* framebuffer's size, which keeps width * height far below 2^32.
SampleBufferIdx(gid, size) ==
    gid[2] * size[1] + gid[1]

InitKernel ==
    /\ IdleOutsideKernel
    /\ framebufferSize \in FramebufferSizeSet
    /\ sampleBuffer = {}
    /\ \E a \in GlobalInvocationIds, b \in GlobalInvocationIds :
           /\ a # b
           /\ invocations = [gid \in {a, b} |-> FALSE]

\* one invocation of main; the colour it computes is not modelled
Main ==
    \E gid \in DOMAIN invocations :
        /\ ~invocations[gid]
        /\ invocations' = [invocations EXCEPT ![gid] = TRUE]
        /\ sampleBuffer' =
               IF OutsideFramebuffer(gid, framebufferSize) THEN sampleBuffer
               ELSE sampleBuffer
                      \cup {<<SampleBufferIdx(gid, framebufferSize), gid>>}
        /\ UNCHANGED framebufferSize
        /\ UNCHANGED outsideKernel

NextKernel ==
    Main

SpecKernel == InitKernel /\ [][NextKernel]_vars

\* the slots invocation gid has written
SlotsWrittenBy(gid) ==
    {w[1] : w \in {e \in sampleBuffer : e[2] = gid}}

\* C15: an invocation outside the framebuffer writes nothing, an invocation
\* inside it writes exactly the slot y * width + x, and no slot is written by
\* two distinct invocations.
C15_OneDisjointSlotPerInvocation ==
    /\ \A gid \in DOMAIN invocations :
           /\ ~invocations[gid] => SlotsWrittenBy(gid) = {}
           /\ invocations[gid] =>
                  SlotsWrittenBy(gid) =
                      IF gid[1] < framebufferSize[1] /\ gid[2] < framebufferSize[2]
                      THEN {gid[2] * framebufferSize[1] + gid[1]}
                      ELSE {}
    /\ \A e1 \in sampleBuffer, e2 \in sampleBuffer :
           e1[1] = e2[1] => e1[2] = e2[2]

\* C15 witness: two invocations inside the framebuffer have both run and
\* two slots are written.
C15_Witness ==
    /\ invocations # <<>>
    /\ \A gid \in DOMAIN invocations : invocations[gid]
    /\ Cardinality(sampleBuffer) = 2


-----------------------------------------------------------------------------
\* surfaceColor (part_001:142-186): the path traced from a primary shading
\* point.  Where the rays go is left open: each continuation ray either hits
\* a surface of some albedo or escapes.  The loop is modelled for every bounce
\* count from the source's NUM_BOUNCES up to MaxBounces.

MaxBounces == 4

NUM_BOUNCES == 2

NumBouncesSet == NUM_BOUNCES..MaxBounces

\* albedos, as exact fractions
AlbedoSet == {F(1, 4), F(1, 2), F(3, 4), FOne}

\* what rayIntersectBvh(ray, T_MAX, &hit) and evalTexture can answer
BounceOutcomes ==
    {<<"hit", albedo>> : albedo \in AlbedoSet} \cup {<<"escape", FZero>>}

\* bounce <= NUM_BOUNCES
LoopConditionInclusive(bounce, numBounces) == bounce <= numBounces

\* the loop condition  bounce < NUM_BOUNCES
LoopCondition(bounce, numBounces) == bounce < numBounces

\* the loop body without the break after the sky radiance
BounceIterationNoBreak(p, outcome) ==
    LET throughput == FMul(p.throughput, p.albedo)
        traced == p.events \o <<<<"throughput", throughput>>, <<"ray", throughput>>>>
    IN  IF outcome[1] = "hit"
        THEN [p EXCEPT !.throughput = throughput,
                       !.albedo = outcome[2],
                       !.surfaces = Append(@, outcome[2]),
                       !.events = traced \o <<<<"hit", throughput>>,
                                              <<"lightSample", throughput>>>>,
                       !.bounce = @ + 1]
        ELSE [p EXCEPT !.throughput = throughput,
                       !.events = traced \o <<<<"escape", throughput>>,
                                              <<"sky", throughput>>,
                                              <<"lightSample", throughput>>>>,
                       !.bounce = @ + 1]

\* the loop body with the throughput multiplied by the albedo bounced to
BounceIterationBouncedTo(p, outcome) ==
    LET traced == Append(p.events, <<"ray", p.throughput>>)
    IN  IF outcome[1] = "hit"
        THEN LET throughput == FMul(p.throughput, outcome[2])
             IN  [p EXCEPT !.throughput = throughput,
                           !.albedo = outcome[2],
                           !.surfaces = Append(@, outcome[2]),
                           !.events = traced \o <<<<"hit", p.throughput>>,
                                                  <<"throughput", throughput>>,
                                                  <<"lightSample", throughput>>>>,
                           !.bounce = @ + 1]
        ELSE [p EXCEPT !.events = traced \o <<<<"escape", p.throughput>>,
                                              <<"sky", p.throughput>>>>,
                       !.pc = "done"]

\* one iteration of the loop body, lines 154-183: throughput *= albedo, the
\* continuation ray, then either the new shading point and its light sample
\* or the sky radiance and break.  Each event carries the throughput it saw.
BounceIteration(p, outcome) ==
    LET throughput == FMul(p.throughput, p.albedo)
        traced == p.events \o <<<<"throughput", throughput>>, <<"ray", throughput>>>>
    IN  IF outcome[1] = "hit"
        THEN [p EXCEPT !.throughput = throughput,
                       !.albedo = outcome[2],
                       !.surfaces = Append(@, outcome[2]),
                       !.events = traced \o <<<<"hit", throughput>>,
                                              <<"lightSample", throughput>>>>,
                       !.bounce = @ + 1]
        ELSE [p EXCEPT !.throughput = throughput,
                       !.events = traced \o <<<<"escape", throughput>>,
                                              <<"sky", throughput>>>>,
                       !.pc = "done"]

InitPath ==
    /\ IdleOutsidePath
    /\ \E numBounces \in NumBouncesSet, primaryAlbedo \in AlbedoSet :
           path = [pc |-> "primary", numBounces |-> numBounces, bounce |-> 0,
                   albedo |-> primaryAlbedo, throughput |-> FOne,
                   surfaces |-> <<primaryAlbedo>>, events |-> <<>>]

\* lines 144-153: the locals, the light sample at the primary shading point
\* and the loop initialisation
PrimaryLightSample ==
    /\ path.pc = "primary"
    /\ path' = [path EXCEPT !.pc = "loop", !.bounce = 1,
                            !.events = Append(@, <<"lightSample", path.throughput>>)]
    /\ UNCHANGED outsidePath

Bounce ==
    /\ path.pc = "loop"
    /\ LoopCondition(path.bounce, path.numBounces)
    /\ \E outcome \in BounceOutcomes : path' = BounceIteration(path, outcome)
    /\ UNCHANGED outsidePath

\* the loop ends, return radiance
ReturnRadiance ==
    /\ path.pc = "loop"
    /\ ~LoopCondition(path.bounce, path.numBounces)
    /\ path' = [path EXCEPT !.pc = "done"]
    /\ UNCHANGED outsidePath

NextPath ==
    \/ PrimaryLightSample
    \/ Bounce
    \/ ReturnRadiance

SpecPath == InitPath /\ [][NextPath]_vars

\* the positions of the events of one kind
EventsOfKind(kind) ==
    {i \in 1..Len(path.events) : path.events[i][1] = kind}

RECURSIVE ProductOf(_, _, _)
\* seq[lo] * ... * seq[hi]
ProductOf(seq, lo, hi) ==
    IF lo > hi THEN FOne ELSE FMul(ProductOf(seq, lo, hi - 1), seq[hi])

\* C16: once a continuation ray has escaped, the sky radiance is added exactly
\* once, directly after it, and nothing follows: the path is finished, with no
\* further continuation ray, light sample or throughput update.
C16_EscapeEndsThePath ==
    /\ \A i \in EventsOfKind("escape") :
           /\ path.pc = "done"
           /\ Len(path.events) = i + 1
           /\ path.events[i + 1][1] = "sky"
    /\ \A i \in EventsOfKind("sky") :
           i > 1 /\ path.events[i - 1][1] = "escape"

\* C16 witness: a continuation ray escaped after an earlier one had hit,
\* with loop iterations still left.
C16_Witness ==
    /\ path.pc = "done"
    /\ EventsOfKind("escape") # {}
    /\ EventsOfKind("hit") # {}
    /\ path.bounce < path.numBounces - 1

\* C17: light is sampled at the primary shading point and directly after
\* every continuation ray that hits, and nowhere else, so the number of light
\* samples is 1 plus the number of hits; there are at most numBounces - 1
\* continuation rays.
C17_LightSamplePerShadingPoint ==
    path.pc # "primary" =>
        /\ Cardinality(EventsOfKind("lightSample"))
             = 1 + Cardinality(EventsOfKind("hit"))
        /\ \A i \in EventsOfKind("lightSample") :
               i = 1 \/ path.events[i - 1][1] = "hit"
        /\ \A i \in EventsOfKind("hit") :
               i < Len(path.events) /\ path.events[i + 1][1] = "lightSample"
        /\ Cardinality(EventsOfKind("ray")) <= path.numBounces - 1

\* C17 witness: a finished path whose numBounces - 1 continuation rays hit
\* twice and then escaped.
C17_Witness ==
    /\ path.pc = "done"
    /\ Cardinality(EventsOfKind("ray")) = path.numBounces - 1
    /\ Cardinality(EventsOfKind("hit")) = 2
    /\ Cardinality(EventsOfKind("lightSample")) = 3
    /\ EventsOfKind("escape") # {}

\* C18 as stated: the throughput is the product of the albedos of the
\* surfaces the continuation rays bounced to.
C18_ThroughputIsProductOfBouncedTo ==
    path.pc # "primary" =>
        path.throughput = ProductOf(path.surfaces, 2, Len(path.surfaces))

\* C18 amended: the throughput is multiplied once per continuation ray,
\* before the ray is traced and whether or not it hits, by the albedo of the
\* surface the ray leaves, and by nothing else: it is the product of the
\* albedos of the primary surface and of the surfaces hit before the last ray.
C18_ThroughputIsProductOfBouncedFrom ==
    path.pc # "primary" =>
        /\ path.throughput =
               ProductOf(path.surfaces, 1, Cardinality(EventsOfKind("ray")))
        /\ Cardinality(EventsOfKind("throughput"))
             = Cardinality(EventsOfKind("ray"))
        /\ \A i \in EventsOfKind("throughput") :
               /\ i < Len(path.events)
               /\ path.events[i + 1][1] = "ray"

\* C18 witness: two continuation rays have hit surfaces whose albedos differ
\* from each other and from the primary surface's.
C18_Witness ==
    /\ path.pc # "primary"
    /\ Cardinality(EventsOfKind("hit")) = 2
    /\ path.surfaces[1] # path.surfaces[2]
    /\ path.surfaces[2] # path.surfaces[3]
    /\ path.surfaces[1] # path.surfaces[3]
    /\ path.throughput = FMul(path.surfaces[1], path.surfaces[2])


-----------------------------------------------------------------------------
\* One ReferencePathTracer::render call after the other, step by step
\* (reference_path_tracer.cpp:765-915): the tick loop, the swap chain texture,
\* then the parameter writes, the encoded pass with the copy into the
\* timestamp buffer, the submit and the map request.  The render parameters
\* stay as constructed.  The duration of a frame is identified by the number
\* of the frame.

MaxRenderCalls == 32
MaxFailedCallbacks == 1
MaxFailedAcquires == 1

\* UiState::numSamplesPerPixel
NumSamplesPerPixel == 64

\* do { wgpuDeviceTick } while (false)
TickLoopConditionOnce(mapState) == FALSE

\* while (wgpuBufferGetMapState(mTimestampBuffer) != WGPUBufferMapState_Unmapped)
TickLoopCondition(mapState) == mapState # "Unmapped"

\* the callback of wgpuBufferMapAsync, run by a device tick
MapCallback(f, status) ==
    [f EXCEPT
        !.mRenderPassDurationsNs = TimestampCallback(@, status, f.mFrameCount),
        !.mapState = "Unmapped",
        !.callbacks = @ + 1,
        !.unmaps = IF status THEN @ + 1 ELSE @,
        !.failedCallbacks = IF status THEN @ ELSE @ + 1,
        !.arrived = IF status THEN Append(@, f.mFrameCount) ELSE @,
        !.lastCallback = IF status THEN "success" ELSE "failure",
        !.durationsBeforeCallback = f.mRenderPassDurationsNs]

\* a return without a texture view that has counted the frame already
ReturnWithoutTextureCountingFrame(f) ==
    [f EXCEPT !.pc = "idle", !.lastReturn = "noTexture",
              !.failedAcquires = @ + 1,
              !.mFrameCount = @ + 1]

\* if (!nextTexture) { fprintf; return; }
ReturnWithoutTexture(f) ==
    [f EXCEPT !.pc = "idle", !.lastReturn = "noTexture",
              !.failedAcquires = @ + 1]

\* lines 780-915 after the texture view was obtained: three parameter buffer
\* writes with mFrameCount++ and the count update, the pass, the copy into
\* the timestamp buffer, the submit and wgpuBufferMapAsync
EncodeSubmitAndMap(f) ==
    [f EXCEPT
        !.pc = "idle",
        !.lastReturn = "submitted",
        !.mFrameCount = @ + 1,
        !.mAccumulatedSampleCount = NextSampleCount(@, NumSamplesPerPixel),
        !.bufferWrites = @ + 3,
        !.copyWhileBusy = @ \/ f.mapState # "Unmapped",
        !.submits = @ + 1,
        !.mapRequests = @ + 1,
        !.mapState = "Pending"]

InitFrame ==
    /\ IdleOutsideFrame
    /\ frame = [pc |-> "idle",
                mFrameCount |-> 0,
                mAccumulatedSampleCount |-> 0,
                mRenderPassDurationsNs |-> <<>>,
                mapState |-> "Unmapped",
                bufferWrites |-> 0, submits |-> 0, mapRequests |-> 0,
                callbacks |-> 0, unmaps |-> 0,
                failedCallbacks |-> 0, failedAcquires |-> 0,
                copyWhileBusy |-> FALSE,
                arrived |-> <<>>,
                lastCallback |-> "none",
                durationsBeforeCallback |-> <<>>,
                lastReturn |-> "none",
                atEntry |-> <<>>]

\* what a render call finds when it is entered
EntrySnapshot(f) ==
    <<f.mFrameCount, f.mAccumulatedSampleCount, f.mRenderPassDurationsNs,
      f.bufferWrites, f.submits, f.mapRequests, f.mapState>>

BeginRender ==
    /\ frame.pc = "idle"
    /\ frame.mFrameCount < MaxRenderCalls
    /\ frame' = [frame EXCEPT !.pc = "tick", !.lastReturn = "none",
                              !.atEntry = EntrySnapshot(frame)]
    /\ UNCHANGED outsideFrame

\* one pass of the do/while: wgpuDeviceTick, which delivers the answer to a
\* pending map request or not yet, then the loop condition
TickInRender(delivered, status) ==
    /\ frame.pc = "tick"
    /\ (frame.mapState = "Unmapped" \/ ~delivered) => status
    /\ frame.mapState = "Unmapped" => delivered
    /\ ~status => frame.failedCallbacks < MaxFailedCallbacks
    /\ LET ticked == IF frame.mapState = "Pending" /\ delivered
                     THEN MapCallback(frame, status) ELSE frame
       IN  frame' = [ticked EXCEPT
                        !.pc = IF TickLoopCondition(ticked.mapState)
                               THEN "tick" ELSE "acquire"]
    /\ UNCHANGED outsideFrame

\* wgpuSwapChainGetCurrentTextureView and the rest of render
AcquireAndRender(haveTexture) ==
    /\ frame.pc = "acquire"
    /\ ~haveTexture => frame.failedAcquires < MaxFailedAcquires
    /\ frame' = IF haveTexture THEN EncodeSubmitAndMap(frame)
                ELSE ReturnWithoutTexture(frame)
    /\ UNCHANGED outsideFrame

\* the device is ticked between two render calls
TickOutsideRender(status) ==
    /\ frame.pc = "idle"
    /\ frame.mapState = "Pending"
    /\ ~status => frame.failedCallbacks < MaxFailedCallbacks
    /\ frame' = [MapCallback(frame, status) EXCEPT !.lastReturn = "none"]
    /\ UNCHANGED outsideFrame

NextFrame ==
    \/ BeginRender
    \/ \E delivered \in BOOLEAN, status \in BOOLEAN : TickInRender(delivered, status)
    \/ \E haveTexture \in BOOLEAN : AcquireAndRender(haveTexture)
    \/ \E status \in BOOLEAN : TickOutsideRender(status)

SpecFrame == InitFrame /\ [][NextFrame]_vars

ReturnedWithoutTexture ==
    frame.pc = "idle" /\ frame.lastReturn = "noTexture"

\* C24 as stated: a render call that obtained no texture view has left
\* mFrameCount, mAccumulatedSampleCount and mRenderPassDurationsNs as they
\* were at its entry, has written no parameter buffer, submitted no command
\* and issued no map request.
C24_NoTextureNoSideEffects ==
    ReturnedWithoutTexture =>
        /\ frame.mFrameCount = frame.atEntry[1]
        /\ frame.mAccumulatedSampleCount = frame.atEntry[2]
        /\ frame.mRenderPassDurationsNs = frame.atEntry[3]
        /\ frame.bufferWrites = frame.atEntry[4]
        /\ frame.submits = frame.atEntry[5]
        /\ frame.mapRequests = frame.atEntry[6]

\* C24 amended: such a call has left mFrameCount and mAccumulatedSampleCount
\* as they were, has written no parameter buffer, submitted no command and
\* issued no map request; the device tick at its top has answered a map
\* request that was pending at entry, so mRenderPassDurationsNs is as it was
\* or has that frame's duration appended, and the timestamp buffer is unmapped.
C24_NoTextureOnlyTheTickActs ==
    ReturnedWithoutTexture =>
        /\ frame.mFrameCount = frame.atEntry[1]
        /\ frame.mAccumulatedSampleCount = frame.atEntry[2]
        /\ frame.bufferWrites = frame.atEntry[4]
        /\ frame.submits = frame.atEntry[5]
        /\ frame.mapRequests = frame.atEntry[6]
        /\ frame.mapState = "Unmapped"
        /\ \/ frame.mRenderPassDurationsNs = frame.atEntry[3]
           \/ /\ frame.atEntry[7] = "Pending"
              /\ frame.mRenderPassDurationsNs =
                     TimestampCallback(frame.atEntry[3], TRUE, frame.atEntry[1])

\* C24 witness: a render call entered with a map request pending has
\* returned without a texture view after earlier frames were rendered.
C24_Witness ==
    /\ ReturnedWithoutTexture
    /\ frame.atEntry[7] = "Pending"
    /\ frame.mFrameCount > 1
    /\ frame.mRenderPassDurationsNs # frame.atEntry[3]

\* C25: the copy into the timestamp buffer and wgpuBufferMapAsync are only
\* reached with the buffer unmapped; at most one map request is outstanding;
\* every successful callback has unmapped the buffer once.
C25_OneMapRequestAtATime ==
    /\ ~frame.copyWhileBusy
    /\ frame.mapRequests - frame.callbacks \in {0, 1}
    /\ frame.mapState = "Pending" <=> frame.mapRequests - frame.callbacks = 1
    /\ frame.unmaps = frame.callbacks - frame.failedCallbacks
    /\ frame.pc = "acquire" => frame.mapState = "Unmapped"

\* C25 witness: a render call entered while the previous frame's map request
\* was pending has gone on to submit its own frame and request the next map.
C25_Witness ==
    /\ frame.pc = "idle"
    /\ frame.lastReturn = "submitted"
    /\ frame.atEntry[7] = "Pending"
    /\ frame.mapRequests >= 2
    /\ frame.unmaps >= 1
    /\ frame.mapState = "Pending"

\* the last n elements of a sequence
LastOf(seq, n) ==
    SubSeq(seq, Len(seq) - n + 1, Len(seq))

\* C26: mRenderPassDurationsNs never holds more than 30 entries; it holds the
\* most recent min(k, 30) of the k durations delivered by successful
\* callbacks, in arrival order; a failed callback leaves it unchanged.
C26_DurationHistoryIsLast30 ==
    /\ Len(frame.mRenderPassDurationsNs) <= 30
    /\ frame.mRenderPassDurationsNs =
           LastOf(frame.arrived, Min(Len(frame.arrived), 30))
    /\ frame.lastCallback = "failure" =>
           frame.mRenderPassDurationsNs = frame.durationsBeforeCallback

\* C26 witness: more than 30 durations have arrived, one callback in between
\* has failed, and the deque holds 30 entries.
C26_Witness ==
    /\ Len(frame.arrived) > 30
    /\ frame.failedCallbacks = 1
    /\ Len(frame.mRenderPassDurationsNs) = 30
    /\ frame.mRenderPassDurationsNs[1] # frame.arrived[1]

-----------------------------------------------------------------------------
(***************************************************************************)
(* Ownership of the raw GPU handles of ReferencePathTracer: constructions, *)
(* move constructions, move assignments and destructions over a few        *)
(* objects.  A handle is named by the construction that created it (0 is   *)
(* nullptr) and the member it was stored in.                               *)
(***************************************************************************)

\* number of ReferencePathTracer objects (storage locations) considered
MaxObjects == 3

\* number of times the creating constructor runs
MaxConstructions == 3

\* the members released by hand in the destructor
RawHandleNames ==
    {"mUniformsBindGroup", "mRenderParamsBindGroup", "mSceneBindGroup",
     "mImageBindGroup", "mQuerySet", "mRenderPipeline"}

Objects == 1..MaxObjects

HandleIds == (1..MaxConstructions) \X RawHandleNames

NullHandles == [n \in RawHandleNames |-> 0]

\* storage that holds no object
NoObject == [alive |-> FALSE, raw |-> NullHandles]

\* a move that copies the query set without clearing it in the source
MovedFromKeepsQuerySet(raw) ==
    [n \in RawHandleNames |-> IF n = "mQuerySet" THEN raw[n] ELSE 0]

\* the raw handles of other after a move: `other.mX = nullptr` for each
MovedFrom(raw) ==
    [n \in RawHandleNames |-> 0]

\* the body shared by the move constructor and the move assignment:
\* guarded by this != &other, every raw handle is copied and then cleared
\* in other; the handles this held before are overwritten
MoveMembers(objects, this, other) ==
    IF this # other
    THEN [objects EXCEPT ![this] = [alive |-> TRUE, raw |-> objects[other].raw],
                         ![other] = [alive |-> TRUE,
                                     raw |-> MovedFrom(objects[other].raw)]]
    ELSE objects

\* querySetSafeRelease, bindGroupSafeRelease, renderPipelineSafeRelease:
\* release the handle unless it is null
SafeRelease(released, name, handle) ==
    IF handle # 0
    THEN [released EXCEPT ![<<handle, name>>] = @ + 1]
    ELSE released

\* ~ReferencePathTracer: the six safe releases, in the destructor's order
Destructor(released, raw) ==
    LET r1 == SafeRelease(released, "mRenderPipeline", raw["mRenderPipeline"])
        r2 == SafeRelease(r1, "mQuerySet", raw["mQuerySet"])
        r3 == SafeRelease(r2, "mImageBindGroup", raw["mImageBindGroup"])
        r4 == SafeRelease(r3, "mSceneBindGroup", raw["mSceneBindGroup"])
        r5 == SafeRelease(r4, "mRenderParamsBindGroup",
                          raw["mRenderParamsBindGroup"])
    IN  SafeRelease(r5, "mUniformsBindGroup", raw["mUniformsBindGroup"])

InitHandles ==
    /\ handles = [pc |-> "run",
                  objects |-> [o \in Objects |-> NoObject],
                  released |-> [id \in HandleIds |-> 0],
                  constructions |-> 0,
                  lastOp |-> <<"none", 0, 0>>]
    /\ IdleOutsideHandles

\* ReferencePathTracer(gpuContext, ...): every raw handle is created
Construct(this) ==
    /\ handles.pc = "run"
    /\ ~handles.objects[this].alive
    /\ handles.constructions < MaxConstructions
    /\ LET k == handles.constructions + 1
       IN  handles' = [handles EXCEPT
               !.objects[this] = [alive |-> TRUE,
                                  raw |-> [n \in RawHandleNames |-> k]],
               !.constructions = k,
               !.lastOp = <<"construct", this, this>>]
    /\ UNCHANGED outsideHandles

\* ReferencePathTracer(ReferencePathTracer&& other): this is new storage
MoveConstruct(this, other) ==
    /\ handles.pc = "run"
    /\ this # other
    /\ ~handles.objects[this].alive
    /\ handles.objects[other].alive
    /\ handles' = [handles EXCEPT
           !.objects = MoveMembers(handles.objects, this, other),
           !.lastOp = <<"moveConstruct", this, other>>]
    /\ UNCHANGED outsideHandles

\* operator=(ReferencePathTracer&& other): both objects exist; a = move(a)
\* is allowed
MoveAssign(this, other) ==
    /\ handles.pc = "run"
    /\ handles.objects[this].alive
    /\ handles.objects[other].alive
    /\ handles' = [handles EXCEPT
           !.objects = MoveMembers(handles.objects, this, other),
           !.lastOp = <<"moveAssign", this, other>>]
    /\ UNCHANGED outsideHandles

\* ~ReferencePathTracer() at the end of the object's lifetime
Destroy(this) ==
    /\ handles.pc = "run"
    /\ handles.objects[this].alive
    /\ handles' = [handles EXCEPT
           !.released = Destructor(handles.released,
                                   handles.objects[this].raw),
           !.objects[this] = NoObject,
           !.lastOp = <<"destroy", this, this>>]
    /\ UNCHANGED outsideHandles

NextHandles ==
    \/ \E this \in Objects : Construct(this)
    \/ \E this \in Objects, other \in Objects : MoveConstruct(this, other)
    \/ \E this \in Objects, other \in Objects : MoveAssign(this, other)
    \/ \E this \in Objects : Destroy(this)

SpecHandles == InitHandles /\ [][NextHandles]_vars

\* the objects that hold handle id
HoldersOf(id) ==
    {o \in Objects : handles.objects[o].raw[id[2]] = id[1]}

\* C27: no raw handle is released more than once; a move between two
\* objects leaves every raw handle of the source null; a handle is held by
\* at most one object, and by none once it is released.
C27_NoHandleReleasedTwice ==
    /\ \A id \in HandleIds :
           /\ handles.released[id] <= 1
           /\ Cardinality(HoldersOf(id)) <= 1
           /\ handles.released[id] = 1 => HoldersOf(id) = {}
    /\ (/\ handles.lastOp[1] \in {"moveConstruct", "moveAssign"}
        /\ handles.lastOp[2] # handles.lastOp[3]) =>
           handles.objects[handles.lastOp[3]].raw = NullHandles

\* C27 witness: handles that went through a move construction and a move
\* assignment have been released, a moved-from object has been destroyed,
\* and the last operation is a move out of an object that held handles.
C27_Witness ==
    /\ \E id \in HandleIds : handles.released[id] = 1
    /\ \E o \in Objects :
           /\ ~handles.objects[o].alive
           /\ \E p \in Objects : handles.objects[p].raw["mQuerySet"] # 0
    /\ handles.lastOp[1] = "moveAssign"
    /\ handles.lastOp[2] # handles.lastOp[3]
    /\ handles.objects[handles.lastOp[2]].raw["mQuerySet"] # 0
    /\ handles.constructions = MaxConstructions

-----------------------------------------------------------------------------
(***************************************************************************)
(* The sky the GUI produces and the sky_params SkyStateLayout builds from  *)
(* it.  The zenith angle goes through f32 arithmetic (degrees to radians,  *)
(* then 0.5f * PI - sunZenith), which is modelled bit-exactly: an f32      *)
(* value is <<m, e>>, standing for m * 2^e with |m| < 2^24; results of the *)
(* operations are normalised (2^23 <= |m| < 2^24, or <<0, 0>>).  Turbidity *)
(* and albedo are passed on unconverted and stay in steps of 1/UnitSteps.  *)
(***************************************************************************)

\* sliders of main.cpp: "sun zenith" and "sky turbidity"
SUN_ZENITH_SLIDER_MIN == 0

SUN_ZENITH_SLIDER_MAX == 90

SKY_TURBIDITY_SLIDER_MIN == 1

SKY_TURBIDITY_SLIDER_MAX == 10

\* std::numbers::pi_v<float> and (float)M_PI: 0x40490FDB
F32_PI == <<13176795, -22>>

F32Zero == <<0, 0>>

\* the value n * 2^e rounded to the nearest f32, ties to even
F32Round(n, e) ==
    LET a == IF n < 0 THEN -n ELSE n
        sign == IF n < 0 THEN -1 ELSE 1
        bits == BitLength(a)
    IN  IF a = 0 THEN F32Zero
        ELSE IF bits <= 24
        THEN <<sign * a * Pow2(24 - bits), e - (24 - bits)>>
        ELSE LET s == bits - 24
                 q == a \div Pow2(s)
                 r == a % Pow2(s)
                 half == Pow2(s - 1)
                 up == r > half \/ (r = half /\ q % 2 = 1)
                 m == IF up THEN q + 1 ELSE q
             IN  IF m = Pow2(24)
                 THEN <<sign * Pow2(23), e + s + 1>>
                 ELSE <<sign * m, e + s>>

\* the same value with an odd (or zero) significand
RECURSIVE F32Odd(_)
F32Odd(a) ==
    IF a[1] = 0 THEN F32Zero
    ELSE IF a[1] % 2 = 0 THEN F32Odd(<<a[1] \div 2, a[2] + 1>>)
    ELSE a

\* a * b in f32
F32Mul(a, b) ==
    LET x == F32Odd(a)
        y == F32Odd(b)
    IN  F32Round(x[1] * y[1], x[2] + y[2])

\* a - b in f32
F32Sub(a, b) ==
    LET x == F32Odd(a)
        y == F32Odd(b)
        e == IF x[1] = 0 THEN y[2] ELSE IF y[1] = 0 THEN x[2] ELSE Min(x[2], y[2])
    IN  F32Round((IF x[1] = 0 THEN 0 ELSE x[1] * Pow2(x[2] - e))
                   - (IF y[1] = 0 THEN 0 ELSE y[1] * Pow2(y[2] - e)), e)

\* a / b in f32, for positive a and b: the quotient is computed to more than
\* 24 bits and a sticky bit records a non-zero remainder
F32Div(a, b) ==
    LET y == F32Odd(b)
        k == 30 - BitLength(a[1])
        n == a[1] * Pow2(k)
        q == n \div y[1]
        r == n % y[1]
    IN  F32Round(2 * q + (IF r # 0 THEN 1 ELSE 0), a[2] - k - y[2] - 1)

\* a < b and a > b for normalised f32 values
F32Lt(a, b) ==
    IF a[1] <= 0 \/ b[1] <= 0
    THEN IF a[1] < 0 /\ b[1] < 0
         THEN a[2] > b[2] \/ (a[2] = b[2] /\ a[1] < b[1])
         ELSE a[1] < b[1]
    ELSE a[2] < b[2] \/ (a[2] = b[2] /\ a[1] < b[1])

F32Gt(a, b) == F32Lt(b, a)

\* inline constexpr float DEGREES_TO_RADIANS = PI / 180.0f
F32_DEGREES_TO_RADIANS == F32Div(F32_PI, <<180, 0>>)

\* a conversion that leaves the angle in degrees
ToRadiansIdentity(degrees) ==
    F32Round(degrees[1], degrees[2])

\* sky.sunZenithDegrees * DEGREES_TO_RADIANS
ToRadians(degrees) ==
    F32Mul(degrees, F32_DEGREES_TO_RADIANS)

\* .elevation = 0.5f * PI - sunZenith
ElevationOf(sunZenithDegrees) ==
    F32Sub(F32Mul(<<1, -1>>, F32_PI), ToRadians(sunZenithDegrees))

\* sky_state_new as SkyStateLayout calls it: the elevation test on the f32
\* value, the turbidity and albedo tests as SkyStateNew makes them
SkyStateNewOfUi(elevation, turbidity, albedo) ==
    IF F32Lt(elevation, F32Zero) \/ F32Gt(elevation, F32_PI)
    THEN "ElevationOutOfRange"
    ELSE SkyStateNew([elevation |-> 0, turbidity |-> turbidity, albedo |-> albedo],
                     Uninitialized).result

\* the values the zenith slider can leave in ui.sunZenithDegrees, sampled at
\* whole degrees
SunZenithSliderValues ==
    {<<k, 0>> : k \in SUN_ZENITH_SLIDER_MIN..SUN_ZENITH_SLIDER_MAX}

\* the values the turbidity slider can leave in ui.skyTurbidity
SkyTurbiditySliderValues ==
    (SKY_TURBIDITY_SLIDER_MIN * UnitSteps)..(SKY_TURBIDITY_SLIDER_MAX * UnitSteps)

NoLayout == <<"none", F32Zero, FALSE>>

\* UiState: sunZenithDegrees = 30, skyTurbidity = 1; the albedo has no widget
\* and is drawn from [0, 1]^3
InitUi ==
    /\ \E albedo \in [0..2 -> 0..UnitSteps] :
           ui = [pc |-> "gui",
                 sunZenithDegrees |-> <<30, 0>>,
                 skyTurbidity |-> 1 * UnitSteps,
                 skyAlbedo |-> albedo,
                 layout |-> NoLayout]
    /\ IdleOutsideUi

\* ImGui::SliderFloat("sun zenith", &ui.sunZenithDegrees, 0.0f, 90.0f): a
\* drag moves the value to a neighbouring one
SliderSunZenith(v) ==
    /\ ui.pc = "gui"
    /\ v[1] - ui.sunZenithDegrees[1] \in {-1, 1}
    /\ ui' = [ui EXCEPT !.sunZenithDegrees = v, !.layout = NoLayout]
    /\ UNCHANGED outsideUi

\* ImGui::SliderFloat("sky turbidity", &ui.skyTurbidity, 1.0f, 10.0f): a
\* drag moves the value to a neighbouring one
SliderSkyTurbidity(v) ==
    /\ ui.pc = "gui"
    /\ v - ui.skyTurbidity \in {-1, 1}
    /\ ui' = [ui EXCEPT !.skyTurbidity = v, !.layout = NoLayout]
    /\ UNCHANGED outsideUi

\* onRender builds the Sky from the UiState and render constructs a
\* SkyStateLayout from it: <<result, elevation, assert failed>>
ConstructSkyStateLayoutOfUi ==
    /\ ui.pc = "gui"
    /\ ui.layout = NoLayout
    /\ LET elevation == ElevationOf(ui.sunZenithDegrees)
           r == SkyStateNewOfUi(elevation, ui.skyTurbidity, ui.skyAlbedo)
       IN  ui' = [ui EXCEPT !.layout = <<r, elevation, r # "Success">>]
    /\ UNCHANGED outsideUi

NextUi ==
    \/ \E v \in SunZenithSliderValues : SliderSunZenith(v)
    \/ \E v \in SkyTurbiditySliderValues : SliderSkyTurbidity(v)
    \/ ConstructSkyStateLayoutOfUi

SpecUi == InitUi /\ [][NextUi]_vars

\* C28: for every sky of the GUI (zenith in [0, 90] degrees, turbidity in
\* [1, 10], albedo components in [0, 1]) the elevation SkyStateLayout passes
\* is in [0, pi] (in fact in [0, pi/2]), sky_state_new succeeds and the assert
\* does not fail.
C28_GuiSkyIsInsideTheDomains ==
    ui.layout # NoLayout =>
        /\ ui.layout[1] = "Success"
        /\ ~ui.layout[3]
        /\ ~F32Lt(ui.layout[2], F32Zero)
        /\ ~F32Gt(ui.layout[2], F32Mul(<<1, -1>>, F32_PI))

\* C28 witness: the layout was constructed with the sun on the horizon
\* (zenith 90 degrees, where the f32 elevation is exactly 0), the turbidity
\* at its upper limit and an albedo component at each end of [0, 1].
C28_Witness ==
    /\ ui.layout # NoLayout
    /\ ui.sunZenithDegrees = <<SUN_ZENITH_SLIDER_MAX, 0>>
    /\ ui.layout[2] = F32Zero
    /\ ui.skyTurbidity = SKY_TURBIDITY_SLIDER_MAX * UnitSteps
    /\ ui.skyAlbedo[0] = 0
    /\ ui.skyAlbedo[1] = UnitSteps

-----------------------------------------------------------------------------
(***************************************************************************)
(* The focus pick of onUpdate: the right mouse button is polled once per   *)
(* update, and appState.focusPressed remembers that a press was acted on.  *)
(* The cursor position, the window size, whether the picked ray hits the   *)
(* BVH and the distance of the hit are inputs of each update.              *)
(***************************************************************************)

\* number of onUpdate calls considered
MaxUpdates == 5

\* window sizes range over 1..MaxWindowDim, cursor coordinates over
\* -1..MaxWindowDim
MaxWindowDim == 2

\* focus distances range over 0..MaxFocusDistance
MaxFocusDistance == 2

\* a pick at every update that sees the button pressed
PickConditionLevelTriggered(button, focusPressed) ==
    button = "PRESS"

\* glfwGetMouseButton(...) == GLFW_PRESS && !appState.focusPressed
PickCondition(button, focusPressed) ==
    button = "PRESS" /\ ~focusPressed

\* (x >= 0.0 && x < windowSize.x) && (y >= 0.0 && y < windowSize.y)
CursorInsideWindow(x, y, windowSize) ==
    (x >= 0 /\ x < windowSize[1]) /\ (y >= 0 /\ y < windowSize[2])

InitFocus ==
    /\ focus = [pc |-> "run",
                button |-> "RELEASE",
                focusPressed |-> FALSE,
                focusDistance |-> 1,
                updates |-> 0,
                picks |-> 0,
                heldUpdates |-> 0,
                heldPicks |-> 0,
                seenBefore |-> "RELEASE",
                last |-> [picked |-> FALSE, wrote |-> FALSE, hit |-> FALSE,
                          cursor |-> <<0, 0>>, windowSize |-> <<1, 1>>]]
    /\ IdleOutsideFocus

\* the user presses or releases the right mouse button between two updates
MouseButton(state) ==
    /\ focus.pc = "run"
    /\ state # focus.button
    /\ focus' = [focus EXCEPT !.button = state]
    /\ UNCHANGED outsideFocus

\* the "camera focus distance" slider of the GUI
SliderFocusDistance(d) ==
    /\ focus.pc = "run"
    /\ d # focus.focusDistance
    /\ focus' = [focus EXCEPT !.focusDistance = d,
                              !.last = [@ EXCEPT !.picked = FALSE, !.wrote = FALSE]]
    /\ UNCHANGED outsideFocus

\* one call of onUpdate, lines 197-232
OnUpdate(x, y, windowSize, hit, distance) ==
    /\ focus.pc = "run"
    /\ focus.updates < MaxUpdates
    /\ LET pick == PickCondition(focus.button, focus.focusPressed)
           inside == CursorInsideWindow(x, y, windowSize)
           write == pick /\ inside /\ hit
           afterPick == IF pick THEN TRUE ELSE focus.focusPressed
           released == focus.button = "RELEASE"
       IN  focus' = [focus EXCEPT
               !.focusPressed = IF released THEN FALSE ELSE afterPick,
               !.focusDistance = IF write THEN distance ELSE @,
               !.updates = @ + 1,
               !.picks = IF pick /\ inside THEN @ + 1 ELSE @,
               !.heldUpdates = IF released THEN 0 ELSE @ + 1,
               !.heldPicks = IF released THEN 0
                             ELSE IF pick THEN @ + 1 ELSE @,
               !.seenBefore = focus.button,
               !.last = [picked |-> pick, wrote |-> write,
                         hit |-> pick /\ inside /\ hit,
                         cursor |-> <<x, y>>, windowSize |-> windowSize]]
    /\ UNCHANGED outsideFocus

\* The inputs an update does not read are held at one value: the cursor and
\* the window size are fetched only inside the pick block, the BVH is queried
\* only with the cursor inside the window.
InputsRead(x, y, windowSize, hit, distance) ==
    LET pick == PickCondition(focus.button, focus.focusPressed)
    IN  /\ ~pick => (x = 0 /\ y = 0 /\ windowSize = <<1, 1>>)
        /\ ~(pick /\ CursorInsideWindow(x, y, windowSize)) =>
               (~hit /\ distance = 0)

NextFocus ==
    \/ \E state \in {"PRESS", "RELEASE"} : MouseButton(state)
    \/ \E d \in 0..MaxFocusDistance : SliderFocusDistance(d)
    \/ \E x \in -1..MaxWindowDim, y \in -1..MaxWindowDim,
          windowSize \in (1..MaxWindowDim) \X (1..MaxWindowDim),
          hit \in BOOLEAN, distance \in 0..MaxFocusDistance :
           /\ InputsRead(x, y, windowSize, hit, distance)
           /\ OnUpdate(x, y, windowSize, hit, distance)

SpecFocus == InitFocus /\ [][NextFocus]_vars

-----------------------------------------------------------------------------
(***************************************************************************)
(* lightSample of the deferred lighting kernel: the direct sun light at a  *)
(* shading point.  Vectors are unit axis vectors, so dot products are      *)
(* exact; the albedo and the solar radiance are non-negative integers per  *)
(* channel; the result is in units of FRAC_1_PI * SOLAR_INV_PDF, the two   *)
(* positive constants it is multiplied by.                                 *)
(***************************************************************************)

\* albedo and solar radiance range over 0..MaxChannelValue per channel
MaxChannelValue == 2

\* surface normals: the six axis directions
AxisDirections ==
    {<<1, 0, 0>>, <<-1, 0, 0>>, <<0, 1, 0>>, <<0, -1, 0>>, <<0, 0, 1>>, <<0, 0, -1>>}

\* directions to the sun: sunDirection.y = cos(sunZenith) >= 0 for the
\* zeniths of the GUI
SunDirections == {d \in AxisDirections : d[2] >= 0}

Dot3(a, b) == a[1] * b[1] + a[2] * b[2] + a[3] * b[3]

\* let reflectance = brdf * dot(normal, lightDirection);
\* return lightIntensity * reflectance * lightVisibility * SOLAR_INV_PDF;
LightSample(lightDirection, lightIntensity, normal, albedo, lightVisibility) ==
    [c \in 0..2 |->
        lightIntensity[c] * (albedo[c] * Dot3(normal, lightDirection)) * lightVisibility]

\* a shading point (normal, albedo) under a sun (lightDirection,
\* lightIntensity), before lightSample is called for it
InitLight ==
    /\ \E lightDirection \in SunDirections, normal \in AxisDirections,
          lightIntensity \in [0..2 -> 0..MaxChannelValue],
          albedo \in [0..2 -> 0..MaxChannelValue] :
           light = [pc |-> "ready",
                    lightDirection |-> lightDirection,
                    normal |-> normal,
                    albedo |-> albedo,
                    lightIntensity |-> lightIntensity,
                    lightVisibility |-> 0,
                    result |-> [c \in 0..2 |-> 0]]
    /\ IdleOutsideLight

\* the call of lightSample for the shading point; shadowRay returns 1 for no
\* forward intersection and 0 otherwise
CallLightSample(lightVisibility) ==
    /\ light.pc = "ready"
    /\ light' = [light EXCEPT
           !.pc = "sampled",
           !.lightVisibility = lightVisibility,
           !.result = LightSample(light.lightDirection, light.lightIntensity,
                                  light.normal, light.albedo, lightVisibility)]
    /\ UNCHANGED outsideLight

NextLight ==
    \E lightVisibility \in {0, 1} : CallLightSample(lightVisibility)

SpecLight == InitLight /\ [][NextLight]_vars

\* C30: the result of lightSample is never negative in any channel; it is
\* zero when the shadow ray is occluded and zero when the normal faces away
\* from the sun direction (dot(normal, lightDirection) <= 0).
C30_LightSampleNeverNegative ==
    light.pc = "sampled" =>
        /\ \A c \in 0..2 : light.result[c] >= 0
        /\ light.lightVisibility = 0 => \A c \in 0..2 : light.result[c] = 0
        /\ Dot3(light.normal, light.lightDirection) <= 0 =>
               \A c \in 0..2 : light.result[c] = 0

=============================================================================
